---- MODULE Spec2Model ----
(***************************************************************************)
(* x402 payment negotiation and verification: the resource server's        *)
(* verification flow (examples/typescript/servers/advanced/index.ts) and   *)
(* the client payment interceptor (typescript/packages/x402-axios).        *)
(***************************************************************************)
EXTENDS Integers, Sequences, FiniteSets, TLC

\* ---------------------------------------------------------------- bounds
MaxMultiplier == 2   \* largest ?multiplier= query value of /dynamic-price
MaxRequests == 2     \* inbound requests handled in one behaviour
MaxAccepts == 2      \* longest accepts array of a 402 body
MaxWire == 3         \* requests one logical request may put on the wire
MaxOps == 2          \* usage counter updates under way at once
MaxFlows == 2        \* logical requests one axios client has under way at once
MaxHeaderLines == 2  \* header lines of a request that name the payment header
MaxText == 3         \* longest text handed to safeBase64Encode

\* ------------------------------------------------------ program constants
x402Version == 1
payTo == "0xRecipient"

\* ------------------------------------------------------------- JS values
\* A JavaScript value that reaches res.json: a string, an Error object, a
\* ZodError object or undefined.
Str(s) == <<"string", s>>
ErrorObj(m) == <<"Error", m>>
ZodErrorObj(m) == <<"ZodError", m>>
Undefined == <<"undefined">>

\* What JSON.stringify (res.json) makes of a field value: an Error has no own
\* enumerable property and becomes {}, a ZodError keeps its issues, undefined
\* drops the key.
JsonObject(detail) == <<"object", detail>>
JsonAbsent == <<"absent">>
jsonValue(v) ==
  IF v[1] = "Error" THEN JsonObject("")
  ELSE IF v[1] = "ZodError" THEN JsonObject(v[2])
  ELSE IF v[1] = "undefined" THEN JsonAbsent
  ELSE v

\* a || b of JavaScript, for the values above (every object is truthy)
Truthy(v) == ~(v = Undefined \/ v = Str(""))
OrElse(a, b) == IF Truthy(a) THEN a ELSE b

\* ------------------------------------------------ requirements and payloads
Schemes == {"exact", "upto"}
Networks == {"base", "base-sepolia", "solana"}

createExactPaymentRequirements(price, network, resource, description) ==
  [scheme |-> "exact", network |-> network, maxAmountRequired |-> price,
   resource |-> resource, description |-> description, payTo |-> payTo]

\* the requirements array each endpoint builds for a request
PaymentRequirementsOf(ep, mult) ==
  CASE ep = "/delayed-settlement" ->
         <<createExactPaymentRequirements(1000, "base-sepolia", ep,
                                          "Access to weather data (async)")>>
    [] ep = "/dynamic-price" ->
         <<createExactPaymentRequirements(1000 * mult, "base-sepolia", ep,
                                          "Access to weather data")>>
    [] ep = "/multiple-payment-requirements" ->
         <<createExactPaymentRequirements(1000, "base", ep, ""),
           createExactPaymentRequirements(1000, "base-sepolia", ep, "")>>
    [] OTHER ->
         <<createExactPaymentRequirements(10000, "base-sepolia", ep,
                                          "Access to chat API")>>

\* Decodable payloads: every scheme and network pair, once as a version 1
\* payload with an authorization value and once as a version 2 payload
\* without one (value 0)
Payloads ==
  {[x402Version |-> 1, scheme |-> s, network |-> n, value |-> 10000] :
      s \in Schemes, n \in {"base", "base-sepolia"}}
  \cup {[x402Version |-> 2, scheme |-> s, network |-> n, value |-> 0] :
      s \in Schemes, n \in {"base", "base-sepolia"}}
NoPayload == [x402Version |-> 0, scheme |-> "", network |-> "", value |-> 0]

\* the X-PAYMENT request header as req.header() returns it
Headers ==
  {[kind |-> k, payload |-> NoPayload] :
      k \in {"absent", "empty", "badBase64", "badSchema"}}
  \cup {[kind |-> "encoded", payload |-> p] : p \in Payloads}

HeaderTruthy(h) == h.kind \notin {"absent", "empty"}

\* exact.evm.decodePayment: the payload, or the error it throws
decodePaymentThrows(h) == h.kind # "encoded"
decodePaymentError(h) ==
  IF h.kind = "badBase64" THEN ErrorObj("Invalid base64 string")
  ELSE ZodErrorObj("invalid payment payload")
decodePayment(h) == h.payload

\* findMatchingPaymentRequirements: first requirement with the payload's
\* scheme and network, <<>> when there is none (undefined)
RECURSIVE findMatchingPaymentRequirements(_, _)
findMatchingPaymentRequirements(reqs, payload) ==
  IF reqs = <<>> THEN <<>>
  ELSE IF Head(reqs).scheme = payload.scheme /\ Head(reqs).network = payload.network
       THEN <<Head(reqs)>>
       ELSE findMatchingPaymentRequirements(Tail(reqs), payload)

\* findMatchingPaymentRequirements(...) || paymentRequirements[0]
selectedPaymentRequirement(reqs, payload) ==
  IF findMatchingPaymentRequirements(reqs, payload) # <<>>
  THEN findMatchingPaymentRequirements(reqs, payload)[1]
  ELSE reqs[1]

\* settleResponseHeader: base64 of the JSON of the settle response
settleResponseHeader(r) == [encoding |-> "base64-json", of |-> r]

\* ------------------------------------------------------- usage counters
FREE_USAGE_LIMIT == 5

\* The four Redis keys of the one user: <<>> is a missing key (null),
\* <<n>> a stored number.
RedisNew == [used |-> <<>>, total |-> <<>>, remaining |-> <<>>, paid |-> <<>>]
RedisOf(u, t, r, p) == [used |-> <<u>>, total |-> <<t>>, remaining |-> <<r>>, paid |-> <<p>>]
ValueOr(k, d) == IF k = <<>> THEN d ELSE k[1]
Max(a, b) == IF a >= b THEN a ELSE b

initializeNewUser(r, ready) ==
  IF ~ready THEN r ELSE RedisOf(0, FREE_USAGE_LIMIT, FREE_USAGE_LIMIT, 0)

userExistsInRedis(r, ready) ==
  ready /\ (r.used # <<>> \/ r.total # <<>> \/ r.remaining # <<>> \/ r.paid # <<>>)

\* getUserRemainingCount: [value, redis]
getUserRemainingCount(r, ready) ==
  IF ~ready THEN [value |-> FREE_USAGE_LIMIT, redis |-> r]
  ELSE IF r.remaining = <<>>
       THEN IF ~userExistsInRedis(r, ready)
            THEN [value |-> ValueOr(initializeNewUser(r, ready).remaining, FREE_USAGE_LIMIT),
                  redis |-> initializeNewUser(r, ready)]
            ELSE [value |-> 0, redis |-> r]
       ELSE [value |-> r.remaining[1], redis |-> r]

\* getUserUsageCount: [value, redis]
getUserUsageCount(r, ready) ==
  IF ~ready THEN [value |-> 0, redis |-> r]
  ELSE IF r.used = <<>>
       THEN IF ~userExistsInRedis(r, ready)
            THEN [value |-> 0, redis |-> initializeNewUser(r, ready)]
            ELSE [value |-> 0, redis |-> r]
       ELSE [value |-> r.used[1], redis |-> r]

incrementUserUsage(r, ready) ==
  IF ~ready THEN r
  ELSE
    LET r1 == IF r.used = <<>> /\ ~userExistsInRedis(r, ready)
              THEN initializeNewUser(r, ready) ELSE r
        currentUsedCount == ValueOr(r1.used, 0)
        newUsedCount == currentUsedCount + 1
        r2 == IF r1.remaining = <<>>
              THEN IF ~userExistsInRedis(r1, ready)
                   THEN initializeNewUser(r1, ready)
                   ELSE [r1 EXCEPT !.remaining = <<0>>]
              ELSE r1
        newRemainingCount == r2.remaining[1] - 1
    IN [r2 EXCEPT !.remaining = <<Max(0, newRemainingCount)>>,
                  !.used = <<newUsedCount>>]

addUsageCreditsFromPayment(r, ready, amountAtomic) ==
  IF ~ready THEN r
  ELSE
    LET creditsToAddInt == amountAtomic \div 1000
    IN IF amountAtomic <= 0 \/ creditsToAddInt <= 0 THEN r
       ELSE [r EXCEPT
               !.remaining = <<ValueOr(r.remaining, 0) + creditsToAddInt>>,
               !.total = <<ValueOr(r.total, FREE_USAGE_LIMIT) + creditsToAddInt>>,
               !.paid = <<ValueOr(r.paid, 0) + creditsToAddInt>>]

\* ------------------------------------------------------ facilitator replies
\* what `await verify(...)` produces: a VerifyResponse or a thrown Error
VerifyOutcomes ==
  {[kind |-> "throw", isValid |-> FALSE, invalidReason |-> Undefined,
    payer |-> Undefined, error |-> ErrorObj("Failed to verify payment")]}
  \cup {[kind |-> "return", isValid |-> TRUE, invalidReason |-> Undefined,
         payer |-> p, error |-> Undefined] : p \in {Undefined, Str("0xPayer")}}
  \cup {[kind |-> "return", isValid |-> FALSE, invalidReason |-> Str(reason),
         payer |-> p, error |-> Undefined] :
           reason \in {"expired", "insufficient_funds"},
           p \in {Undefined, Str("0xPayer")}}

\* what `await settle(...)` produces: a SettleResponse or a thrown Error
SettleOutcomes ==
  {[kind |-> "throw", success |-> FALSE, errorReason |-> Undefined,
    transaction |-> "", error |-> ErrorObj("Failed to settle payment")]}
  \cup {[kind |-> "return", success |-> TRUE, errorReason |-> Undefined,
         transaction |-> "0xtx", error |-> Undefined]}
  \cup {[kind |-> "return", success |-> FALSE, errorReason |-> Str("insufficient_funds"),
         transaction |-> "", error |-> Undefined]}

\* what the upstream inference request of proxyPost ends with
ProxyOutcomes ==
  [kind : {"end", "responseError", "requestError"}, status : {200, 500},
   hasPaymentResponseHeader : BOOLEAN]

\* ============================================================ the server
VARIABLES
  pc,            \* where the handler of the current request stands
  req,           \* the inbound request: endpoint, method, multiplier, header, token
  res,           \* the response object: status set so far, X-PAYMENT-RESPONSE header
  sent,          \* the responses written for the current request, in order
  calls,         \* the facilitator calls of the current request, in order
  verifyResp,    \* what verify produced for the current request
  settleResp,    \* what settle produced for the current request
  entered,       \* verifyPayment was called for the current request
  remainingCount,        \* handleGenerate: remainingCount read from Redis
  paymentAmountAtomic,   \* handleGenerate: amount credits are added for
  creditsAdded,  \* addUsageCreditsFromPayment runs for the current request
  proxied,       \* upstream inference requests of the current request
  usageDeducted, \* incrementUserUsage runs for the current request
  redis,         \* the user's usage keys
  redisReady,    \* redis.status === "ready"
  nreq,          \* requests received so far
  usage,         \* usage counter updates under way, and the keys they started from
  prev           \* the accepts list of the latest 402 sent for a missing header

svars == <<pc, req, res, sent, calls, verifyResp, settleResp, entered, remainingCount,
           paymentAmountAtomic, creditsAdded, proxied, usageDeducted, redis,
           redisReady, nreq, usage, prev>>

VARIABLES
  cpc,         \* where the logical request stands
  wallet,      \* the wallet client of the interceptor
  config,      \* originalConfig: the config object of the logical request
  wire,        \* the configs of the requests sent for the logical request
  selectCalls, \* calls of the requirements selector
  signCalls,   \* calls of createPaymentHeader (the requirement signed)
  selected,    \* selectedPaymentRequirements while signing
  responses,   \* the answers received for the logical request
  signResp,    \* what createPaymentHeader produced for the logical request
  outcome,     \* how the logical request ended for the caller
  flows        \* the logical requests of callers that do not wait for each other

cvars == <<cpc, wallet, config, wire, selectCalls, signCalls, selected, responses,
           signResp, outcome, flows>>

VARIABLES
  seller,      \* the seller demo (GET /paid): the handler and what it sent
  fac,         \* the local facilitator: the request it served last, its answer
  hdr,         \* verifyPayment's header lookup: the header lines, the value found
  b64          \* the base64 helpers: the call made last and what it gave

xvars == <<seller, fac, hdr, b64>>

VARIABLES
  pw,          \* getPaywallHtml: the options of the call made, the page it gave
  ux,          \* the usage read under way: the function, the command it awaits
  gen          \* POST /generate requests under way, the user's keys, the counts

yvars == <<pw, ux, gen>>
vars == <<svars, cvars, xvars, yvars>>

SimpleEndpoints ==
  {"/delayed-settlement", "/dynamic-price", "/multiple-payment-requirements"}
Requests ==
  [endpoint : {"/delayed-settlement", "/multiple-payment-requirements"},
   method : {"GET"}, multiplier : {1}, header : Headers, token : {TRUE}]
  \cup [endpoint : {"/dynamic-price"}, method : {"GET"},
        multiplier : 1..MaxMultiplier, header : Headers, token : {TRUE}]
  \cup [endpoint : {"/generate"}, method : {"GET", "POST"}, multiplier : {1},
        header : Headers, token : {TRUE}]
  \cup [endpoint : {"/generate"}, method : {"GET", "POST"}, multiplier : {1},
        header : {[kind |-> "absent", payload |-> NoPayload]}, token : {FALSE}]
NoRequest ==
  [endpoint |-> "", method |-> "", multiplier |-> 1,
   header |-> [kind |-> "absent", payload |-> NoPayload], token |-> FALSE]

paymentRequirements == PaymentRequirementsOf(req.endpoint, req.multiplier)

\* ---- response bodies, as res.json serialises them
PaymentRequiredBody(error, accepts, payer, withUsage) ==
  [kind |-> "paymentRequired", x402Version |-> x402Version,
   error |-> jsonValue(error), accepts |-> accepts, payer |-> jsonValue(payer),
   withUsage |-> withUsage]
OtherBody(kind) ==
  [kind |-> kind, x402Version |-> 0, error |-> JsonAbsent, accepts |-> <<>>,
   payer |-> JsonAbsent, withUsage |-> FALSE]

\* res.status(status).json(body) / res.send: the response goes out with the
\* headers set on res so far
Written(status, body, r) ==
  [status |-> status, body |-> body, xPaymentResponse |-> r.xPaymentResponse]
NoResponse == Written(0, OtherBody("none"), [status |-> 200, xPaymentResponse |-> <<>>])

\* a call to the facilitator; sentBefore is the number of responses already
\* written for the request when the call is made
FacilitatorCall(op, payload, requirement, sentBefore) ==
  [op |-> op, paymentPayload |-> payload, paymentRequirements |-> requirement,
   sentBefore |-> sentBefore]

\* the request just handled was answered by verifyPayment's 402 for a
\* missing header
MissingHeader402 ==
  /\ pc = "done"
  /\ entered
  /\ ~HeaderTruthy(req.header)
  /\ sent # <<>>
NoPrev == [endpoint |-> "", multiplier |-> 1, accepts |-> <<>>]

ServerInit ==
  /\ pc = "idle"
  /\ req = NoRequest
  /\ res = [status |-> 200, xPaymentResponse |-> <<>>]
  /\ sent = <<>>
  /\ calls = <<>>
  /\ verifyResp = <<>>
  /\ settleResp = <<>>
  /\ entered = FALSE
  /\ remainingCount = 0
  /\ paymentAmountAtomic = 0
  /\ creditsAdded = 0
  /\ proxied = 0
  /\ usageDeducted = 0
  /\ redis \in {RedisNew, RedisOf(FREE_USAGE_LIMIT, FREE_USAGE_LIMIT, 0, 0)}
  /\ redisReady \in BOOLEAN
  /\ nreq = 0
  /\ usage = [start |-> redis, procs |-> <<>>]
  /\ prev = NoPrev

\* Express hands an inbound request to its route handler
ReceiveRequest(r) ==
  /\ pc \in {"idle", "done"}
  /\ nreq < MaxRequests
  /\ nreq' = nreq + 1
  /\ prev' = IF MissingHeader402
             THEN [endpoint |-> req.endpoint, multiplier |-> req.multiplier,
                   accepts |-> sent[1].body.accepts]
             ELSE prev
  /\ req' = r
  /\ pc' = "received"
  /\ res' = [status |-> 200, xPaymentResponse |-> <<>>]
  /\ sent' = <<>>
  /\ calls' = <<>>
  /\ verifyResp' = <<>>
  /\ settleResp' = <<>>
  /\ entered' = FALSE
  /\ remainingCount' = 0
  /\ paymentAmountAtomic' = 0
  /\ creditsAdded' = 0
  /\ proxied' = 0
  /\ usageDeducted' = 0
  /\ UNCHANGED <<redis, redisReady>>
  /\ UNCHANGED <<usage, cvars, xvars, yvars>>

\* ---- verifyPayment
MissingHeaderBody_FirstOnly(reqs) ==
  PaymentRequiredBody(Str("X-PAYMENT header is required"), <<reqs[1]>>, Undefined, FALSE)

\* body of the 402 for a missing header
MissingHeaderBody(reqs) ==
  PaymentRequiredBody(Str("X-PAYMENT header is required"), reqs, Undefined, FALSE)

\* body of the 402 for a header that does not decode
DecodeFailedBody(error, reqs) ==
  PaymentRequiredBody(OrElse(error, Str("Invalid or malformed payment header")),
                      reqs, Undefined, FALSE)

VerifyCalls_Repeated(reqs, decodedPayment, sentBefore) ==
  <<FacilitatorCall("verify",
      [decodedPayment EXCEPT !.x402Version = x402Version],
      selectedPaymentRequirement(reqs, decodedPayment), sentBefore),
    FacilitatorCall("verify",
      [decodedPayment EXCEPT !.x402Version = x402Version],
      selectedPaymentRequirement(reqs, decodedPayment), sentBefore)>>

\* the facilitator calls verifyPayment makes for a decoded payment
VerifyCalls(reqs, decodedPayment, sentBefore) ==
  <<FacilitatorCall("verify",
      [decodedPayment EXCEPT !.x402Version = x402Version],
      selectedPaymentRequirement(reqs, decodedPayment), sentBefore)>>

InvalidPaymentBody_PayerDropped(o, reqs) ==
  PaymentRequiredBody(o.invalidReason, reqs, Undefined, FALSE)

\* body of the 402 for a payment the facilitator found invalid
InvalidPaymentBody(o, reqs) ==
  PaymentRequiredBody(o.invalidReason, reqs, o.payer, FALSE)

VerifyFailedBody_ReasonLike(o, reqs) ==
  PaymentRequiredBody(Str("expired"), reqs, Undefined, FALSE)

\* body of the 402 when the verify call threw
VerifyFailedBody(o, reqs) ==
  PaymentRequiredBody(o.error, reqs, Undefined, FALSE)

\* verifyPayment up to `await verify(...)`: sets sent, calls, pc and entered
verifyPaymentEnter(reqs) ==
  /\ entered' = TRUE
  /\ IF ~HeaderTruthy(req.header)
     THEN /\ sent' = Append(sent, Written(402, MissingHeaderBody(reqs), res))
          /\ pc' = "done"
          /\ UNCHANGED calls
     ELSE IF decodePaymentThrows(req.header)
     THEN /\ sent' = Append(sent, Written(402,
                       DecodeFailedBody(decodePaymentError(req.header), reqs), res))
          /\ pc' = "done"
          /\ UNCHANGED calls
     ELSE /\ calls' = calls \o VerifyCalls(reqs, decodePayment(req.header), Len(sent))
          /\ pc' = "awaitVerify"
          /\ UNCHANGED sent

\* verifyPayment from the answer of verify to `return false`: sets sent and pc
verifyPaymentRejects(o, reqs) ==
  /\ sent' = Append(sent, Written(402,
                IF o.kind = "throw" THEN VerifyFailedBody(o, reqs)
                ELSE InvalidPaymentBody(o, reqs), res))
  /\ pc' = "done"

\* the handlers of /delayed-settlement, /dynamic-price and
\* /multiple-payment-requirements up to their first await
HandlerStart ==
  /\ pc = "received"
  /\ req.endpoint \in SimpleEndpoints
  /\ verifyPaymentEnter(paymentRequirements)
  /\ UNCHANGED <<req, res, verifyResp, settleResp, remainingCount,
                 paymentAmountAtomic, creditsAdded, proxied, usageDeducted,
                 redis, redisReady, nreq, prev>>
  /\ UNCHANGED <<usage, cvars, xvars, yvars>>

\* handleGenerate up to `await getCurrentUser(...)`
GenerateStart ==
  /\ pc = "received"
  /\ req.endpoint = "/generate"
  /\ IF ~req.token
     THEN /\ sent' = Append(sent, Written(401, OtherBody("missingToken"), res))
          /\ pc' = "done"
     ELSE /\ pc' = "awaitUser"
          /\ UNCHANGED sent
  /\ UNCHANGED <<req, res, calls, verifyResp, settleResp, entered, remainingCount,
                 paymentAmountAtomic, creditsAdded, proxied, usageDeducted,
                 redis, redisReady, nreq, prev>>
  /\ UNCHANGED <<usage, cvars, xvars, yvars>>

\* handleGenerate from the answer of getCurrentUser to its next await: the
\* usage reads, then the GET or POST branch
UserReturns(found) ==
  /\ pc = "awaitUser"
  /\ IF ~found
     THEN /\ sent' = Append(sent, Written(401, OtherBody("unauthenticated"), res))
          /\ pc' = "done"
          /\ UNCHANGED <<calls, entered, remainingCount, proxied, redis>>
     ELSE
       LET rc == getUserRemainingCount(redis, redisReady)
           uc == getUserUsageCount(rc.redis, redisReady)
           requiresPayment == rc.value <= 0
       IN /\ remainingCount' = rc.value
          /\ redis' = uc.redis
          /\ IF req.method = "GET"
             THEN IF requiresPayment
                  THEN IF ~HeaderTruthy(req.header)
                       THEN /\ sent' = Append(sent, Written(402,
                                         PaymentRequiredBody(Str("Payment required"),
                                           paymentRequirements, Undefined, TRUE), res))
                            /\ pc' = "done"
                            /\ UNCHANGED <<calls, entered, proxied>>
                       ELSE /\ verifyPaymentEnter(paymentRequirements)
                            /\ UNCHANGED proxied
                  ELSE /\ sent' = Append(sent, Written(200, OtherBody("noPaymentRequired"), res))
                       /\ pc' = "done"
                       /\ UNCHANGED <<calls, entered, proxied>>
             ELSE IF requiresPayment
                  THEN /\ verifyPaymentEnter(paymentRequirements)
                       /\ UNCHANGED proxied
                  ELSE /\ proxied' = proxied + 1
                       /\ pc' = "awaitProxy"
                       /\ UNCHANGED <<sent, calls, entered>>
  /\ UNCHANGED <<req, res, verifyResp, settleResp, paymentAmountAtomic,
                 creditsAdded, usageDeducted, redisReady, nreq, prev>>
  /\ UNCHANGED <<usage, cvars, xvars, yvars>>

\* ---- the handlers between a valid verification and `await settle(...)`:
\* each sets sent, calls, pc and paymentAmountAtomic
delayedSettlementAfterVerify ==
  /\ sent' = Append(sent, Written(200, OtherBody("weather"), res))
  /\ calls' = Append(calls, FacilitatorCall("settle", decodePayment(req.header),
                              paymentRequirements[1], Len(sent) + 1))
  /\ pc' = "awaitSettle"
  /\ UNCHANGED paymentAmountAtomic

dynamicPriceAfterVerify ==
  /\ calls' = Append(calls, FacilitatorCall("settle", decodePayment(req.header),
                              paymentRequirements[1], Len(sent)))
  /\ pc' = "awaitSettle"
  /\ UNCHANGED <<sent, paymentAmountAtomic>>

multiplePaymentRequirementsAfterVerify ==
  /\ calls' = Append(calls, FacilitatorCall("settle", decodePayment(req.header),
                              selectedPaymentRequirement(paymentRequirements,
                                                         decodePayment(req.header)),
                              Len(sent)))
  /\ pc' = "awaitSettle"
  /\ UNCHANGED <<sent, paymentAmountAtomic>>

generateGetAfterVerify ==
  /\ sent' = Append(sent, Written(200, OtherBody("paymentVerified"), res))
  /\ pc' = "done"
  /\ UNCHANGED <<calls, paymentAmountAtomic>>

generatePostAfterVerify ==
  /\ paymentAmountAtomic' =
       IF decodePayment(req.header).value # 0 THEN decodePayment(req.header).value
       ELSE paymentRequirements[1].maxAmountRequired
  /\ calls' = Append(calls, FacilitatorCall("settle", decodePayment(req.header),
                              paymentRequirements[1], Len(sent)))
  /\ pc' = "awaitSettle"
  /\ UNCHANGED sent

VerifyReturns_ThrowOnly(o) ==
  /\ pc = "awaitVerify"
  /\ verifyResp' = Append(verifyResp, o)
  /\ IF o.kind = "throw"
     THEN /\ verifyPaymentRejects(o, paymentRequirements)
          /\ UNCHANGED <<calls, paymentAmountAtomic>>
     ELSE CASE req.endpoint = "/delayed-settlement" -> delayedSettlementAfterVerify
            [] req.endpoint = "/dynamic-price" -> dynamicPriceAfterVerify
            [] req.endpoint = "/multiple-payment-requirements" ->
                 multiplePaymentRequirementsAfterVerify
            [] req.endpoint = "/generate" /\ req.method = "GET" -> generateGetAfterVerify
            [] req.endpoint = "/generate" /\ req.method = "POST" -> generatePostAfterVerify
  /\ UNCHANGED <<req, res, settleResp, entered, remainingCount, creditsAdded, proxied,
                 usageDeducted, redis, redisReady, nreq, prev>>
  /\ UNCHANGED <<usage, cvars, xvars, yvars>>

\* verifyPayment from the answer of verify to its return, then the calling
\* handler up to its next await
VerifyReturns(o) ==
  /\ pc = "awaitVerify"
  /\ verifyResp' = Append(verifyResp, o)
  /\ IF o.kind = "throw" \/ ~o.isValid
     THEN /\ verifyPaymentRejects(o, paymentRequirements)
          /\ UNCHANGED <<calls, paymentAmountAtomic>>
     ELSE CASE req.endpoint = "/delayed-settlement" -> delayedSettlementAfterVerify
            [] req.endpoint = "/dynamic-price" -> dynamicPriceAfterVerify
            [] req.endpoint = "/multiple-payment-requirements" ->
                 multiplePaymentRequirementsAfterVerify
            [] req.endpoint = "/generate" /\ req.method = "GET" -> generateGetAfterVerify
            [] req.endpoint = "/generate" /\ req.method = "POST" -> generatePostAfterVerify
  /\ UNCHANGED <<req, res, settleResp, entered, remainingCount, creditsAdded, proxied,
                 usageDeducted, redis, redisReady, nreq, prev>>
  /\ UNCHANGED <<usage, cvars, xvars, yvars>>

\* ---- the handlers from the answer of settle on: each sets res, sent, calls,
\* pc, creditsAdded, proxied and redis
WithPaymentResponse(r, o) == [r EXCEPT !.xPaymentResponse = <<settleResponseHeader(o)>>]

delayedSettlementAfterSettle_FailureSurfaced(o) ==
  /\ pc' = "done"
  /\ IF o.kind = "return" /\ o.success
     THEN UNCHANGED sent
     ELSE sent' = Append(sent, Written(402,
                    PaymentRequiredBody(Str("Payment settlement failed"),
                                        paymentRequirements, Undefined, FALSE), res))
  /\ UNCHANGED <<res, calls, creditsAdded, proxied, redis>>

\* /delayed-settlement: the outcome of settle is only logged
delayedSettlementAfterSettle(o) ==
  /\ pc' = "done"
  /\ UNCHANGED <<res, sent, calls, creditsAdded, proxied, redis>>

dynamicPriceAfterSettle(o) ==
  /\ pc' = "done"
  /\ IF o.kind = "return"
     THEN /\ res' = WithPaymentResponse(res, o)
          /\ sent' = Append(sent, Written(200, OtherBody("weather"),
                                          WithPaymentResponse(res, o)))
     ELSE /\ sent' = Append(sent, Written(402,
                       PaymentRequiredBody(Str(o.error[2]), paymentRequirements,
                                           Undefined, FALSE), res))
          /\ UNCHANGED res
  /\ UNCHANGED <<calls, creditsAdded, proxied, redis>>

multiplePaymentRequirementsAfterSettle(o) ==
  /\ pc' = "done"
  /\ IF o.kind = "return"
     THEN /\ res' = WithPaymentResponse(res, o)
          /\ sent' = Append(sent, Written(200, OtherBody("weather"),
                                          WithPaymentResponse(res, o)))
     ELSE /\ sent' = Append(sent, Written(402,
                       PaymentRequiredBody(o.error, paymentRequirements,
                                           Undefined, FALSE), res))
          /\ UNCHANGED res
  /\ UNCHANGED <<calls, creditsAdded, proxied, redis>>

generatePostAfterSettle(o) ==
  IF o.kind = "return"
  THEN /\ res' = WithPaymentResponse(res, o)
       /\ creditsAdded' = creditsAdded + 1
       /\ redis' = addUsageCreditsFromPayment(redis, redisReady,
                     IF paymentAmountAtomic # 0 THEN paymentAmountAtomic
                     ELSE paymentRequirements[1].maxAmountRequired)
       /\ proxied' = proxied + 1
       /\ pc' = "awaitProxy"
       /\ UNCHANGED <<sent, calls>>
  ELSE /\ sent' = Append(sent, Written(402,
                    PaymentRequiredBody(Str("Payment settlement failed"),
                                        paymentRequirements, Undefined, FALSE), res))
       /\ pc' = "done"
       /\ UNCHANGED <<res, calls, creditsAdded, proxied, redis>>

SettleReturns(o) ==
  /\ pc = "awaitSettle"
  /\ settleResp' = Append(settleResp, o)
  /\ CASE req.endpoint = "/delayed-settlement" -> delayedSettlementAfterSettle(o)
       [] req.endpoint = "/dynamic-price" -> dynamicPriceAfterSettle(o)
       [] req.endpoint = "/multiple-payment-requirements" ->
            multiplePaymentRequirementsAfterSettle(o)
       [] req.endpoint = "/generate" -> generatePostAfterSettle(o)
  /\ UNCHANGED <<req, verifyResp, entered, remainingCount, paymentAmountAtomic,
                 usageDeducted, redisReady, nreq, prev>>
  /\ UNCHANGED <<usage, cvars, xvars, yvars>>

\* an X-PAYMENT-RESPONSE header of the upstream response
UpstreamPaymentResponse ==
  [encoding |-> "upstream",
   of |-> [kind |-> "return", success |-> TRUE, errorReason |-> Undefined,
           transaction |-> "0xupstream", error |-> Undefined]]

\* proxyPost when the upstream response starts: its status and headers are
\* copied onto res
proxyForwarded(r, o) ==
  [status |-> o.status,
   xPaymentResponse |-> IF o.hasPaymentResponseHeader
                        THEN <<UpstreamPaymentResponse>>
                        ELSE r.xPaymentResponse]

inferenceFailed_Unguarded(s, r) ==
  Append(s, Written(500, OtherBody("inferenceFailed"), r))

\* handleGenerate's catch of a rejected proxyPost: a 500 of its own unless
\* res.headersSent
inferenceFailed(s, r) ==
  IF s = <<>> THEN Append(s, Written(500, OtherBody("inferenceFailed"), r)) ELSE s

\* proxyPost from the upstream answer to its settling, then handleGenerate to
\* its end
ProxyReturns(o) ==
  /\ pc = "awaitProxy"
  /\ pc' = "done"
  /\ CASE o.kind = "end" ->
            /\ res' = proxyForwarded(res, o)
            /\ IF sent = <<>>
               THEN sent' = Append(sent, Written(o.status, OtherBody("inference"),
                                                 proxyForwarded(res, o)))
               ELSE UNCHANGED sent
            /\ usageDeducted' = usageDeducted + 1
            /\ redis' = incrementUserUsage(redis, redisReady)
       [] o.kind = "responseError" ->
            /\ res' = [proxyForwarded(res, o) EXCEPT !.status = IF sent = <<>> THEN 500 ELSE @]
            /\ sent' = inferenceFailed(
                          IF sent = <<>>
                          THEN Append(sent, Written(500, OtherBody("proxyResponseError"),
                                                    proxyForwarded(res, o)))
                          ELSE sent, res')
            /\ UNCHANGED <<usageDeducted, redis>>
       [] o.kind = "requestError" ->
            /\ res' = [res EXCEPT !.status = IF sent = <<>> THEN 502 ELSE @]
            /\ sent' = inferenceFailed(
                          IF sent = <<>>
                          THEN Append(sent, Written(502, OtherBody("proxyRequestFailed"), res))
                          ELSE sent, res')
            /\ UNCHANGED <<usageDeducted, redis>>
  /\ UNCHANGED <<req, calls, verifyResp, settleResp, entered, remainingCount,
                 paymentAmountAtomic, creditsAdded, proxied, redisReady, nreq, prev>>
  /\ UNCHANGED <<usage, cvars, xvars, yvars>>

\* the Redis connection drops or comes back
RedisStatusChange ==
  /\ redisReady' = ~redisReady
  /\ UNCHANGED <<pc, req, res, sent, calls, verifyResp, settleResp, entered,
                 remainingCount, paymentAmountAtomic, creditsAdded, proxied,
                 usageDeducted, redis, nreq, prev>>
  /\ UNCHANGED <<usage, cvars, xvars, yvars>>

ServerNext ==
  \/ \E r \in Requests : ReceiveRequest(r)
  \/ HandlerStart
  \/ GenerateStart
  \/ \E found \in BOOLEAN : UserReturns(found)
  \/ \E o \in VerifyOutcomes : VerifyReturns(o)
  \/ \E o \in SettleOutcomes : SettleReturns(o)
  \/ \E o \in ProxyOutcomes : ProxyReturns(o)
  \/ RedisStatusChange

\* ==================================================== the client interceptor
\* elements of the accepts array of a 402 body; maxAmountRequired -1 stands
\* for an element that fails PaymentRequirementsSchema
AcceptElements ==
  {[scheme |-> "exact", network |-> "base-sepolia", maxAmountRequired |-> 1000],
   [scheme |-> "exact", network |-> "base", maxAmountRequired |-> 1000],
   [scheme |-> "upto", network |-> "base-sepolia", maxAmountRequired |-> 500],
   [scheme |-> "exact", network |-> "base-sepolia", maxAmountRequired |-> -1]}
AcceptsLists == UNION {[1..n -> AcceptElements] : n \in 0..MaxAccepts}

\* PaymentRequirementsSchema.parse(x) throws
SchemaRejects(x) ==
  \/ x.scheme = ""
  \/ x.network \notin Networks
  \/ x.maxAmountRequired < 0

\* error.response.data of a 402: a string or an already parsed value
Data402 ==
  {[form |-> "string", value |-> "unparseable", x402Version |-> "missing",
    accepts |-> "missing", elements |-> <<>>]}
  \cup {[form |-> f, value |-> v, x402Version |-> "missing", accepts |-> "missing",
         elements |-> <<>>] : f \in {"string", "object"}, v \in {"null", "number"}}
  \cup {[form |-> f, value |-> "object", x402Version |-> x, accepts |-> a,
         elements |-> <<>>] :
           f \in {"string", "object"}, x \in {"number", "string", "missing"},
           a \in {"missing", "object"}}
  \cup {[form |-> f, value |-> "object", x402Version |-> x, accepts |-> "array",
         elements |-> e] :
           f \in {"string", "object"}, x \in {"number", "string", "missing"},
           e \in AcceptsLists}
NoData ==
  [form |-> "object", value |-> "null", x402Version |-> "missing",
   accepts |-> "missing", elements |-> <<>>]

\* what axios gets back for a request: a response (status 0: no response at
\* all) and whether the error carries a usable request config
HttpOutcomes ==
  {[status |-> 200, data |-> NoData, hasConfig |-> TRUE, xPaymentResponse |-> h] :
      h \in {<<>>} \cup {<<settleResponseHeader(r)>> :
                           r \in {x \in SettleOutcomes : x.kind = "return"}}}
  \cup {[status |-> st, data |-> NoData, hasConfig |-> TRUE,
         xPaymentResponse |-> <<>>] : st \in {0, 500}}
  \cup {[status |-> 402, data |-> d, hasConfig |-> TRUE,
         xPaymentResponse |-> <<>>] : d \in Data402}
  \cup {[status |-> 402, data |-> NoData, hasConfig |-> FALSE,
         xPaymentResponse |-> <<>>]}

\* the wallet client handed to withPaymentInterceptor
Wallets == {"multi", "evm:base-sepolia", "evm:base", "evm:unknown", "svm", "account"}

\* `network` of the interceptor: defined is FALSE for undefined
NetworkOf(w) ==
  CASE w = "multi" -> [defined |-> FALSE, nets |-> {}]
    [] w = "evm:base-sepolia" -> [defined |-> TRUE, nets |-> {"base-sepolia"}]
    [] w = "evm:base" -> [defined |-> TRUE, nets |-> {"base"}]
    [] w = "evm:unknown" -> [defined |-> FALSE, nets |-> {}]
    [] w = "svm" -> [defined |-> TRUE, nets |-> {"solana", "solana-devnet"}]
    [] OTHER -> [defined |-> FALSE, nets |-> {}]

RECURSIVE SelectSeq2(_, _, _)
SelectSeq2(seq, nets, scheme) ==
  IF seq = <<>> THEN <<>>
  ELSE IF (nets = {} \/ Head(seq).network \in nets)
          /\ (scheme = "" \/ Head(seq).scheme = scheme)
       THEN <<Head(seq)>> \o SelectSeq2(Tail(seq), nets, scheme)
       ELSE SelectSeq2(Tail(seq), nets, scheme)

\* selectPaymentRequirements: [throws, value]
selectPaymentRequirements(parsed, network, scheme) ==
  LET filtered == IF network.defined THEN SelectSeq2(parsed, network.nets, "")
                  ELSE parsed
      matching == SelectSeq2(filtered, {}, scheme)
  IN IF parsed = <<>> THEN [throws |-> TRUE, value |-> <<>>]
     ELSE IF matching # <<>> THEN [throws |-> FALSE, value |-> <<matching[1]>>]
     ELSE IF filtered # <<>> THEN [throws |-> FALSE, value |-> <<filtered[1]>>]
     ELSE [throws |-> FALSE, value |-> <<parsed[1]>>]

\* createPaymentHeader on success: the encoded PaymentPayload
createPaymentHeader(version, requirement) ==
  [kind |-> "encoded",
   payload |-> [x402Version |-> version, scheme |-> requirement.scheme,
                network |-> requirement.network,
                value |-> requirement.maxAmountRequired]]

NoXPayment == [kind |-> "absent", payload |-> NoPayload]
FreshConfig == [is402Retry |-> FALSE, xPayment |-> NoXPayment]
NoOutcome ==
  [kind |-> "pending", status |-> 0, error |-> "", cause |-> "", data |-> NoData,
   xPaymentResponse |-> <<>>]
\* `response => response`: the response itself
Resolved(o) ==
  [kind |-> "resolved", status |-> o.status, error |-> "", cause |-> "",
   data |-> o.data, xPaymentResponse |-> o.xPaymentResponse]
\* Promise.reject(error): the AxiosError of response o itself
RejectedWith(o) ==
  [kind |-> "rejected", status |-> o.status, error |-> "AxiosError", cause |-> "",
   data |-> o.data, xPaymentResponse |-> o.xPaymentResponse]
\* Promise.reject(new Error(message))
RejectedNew(message) ==
  [kind |-> "rejected", status |-> 0, error |-> message, cause |-> "",
   data |-> NoData, xPaymentResponse |-> <<>>]

\* what `await createPaymentHeader(...)` produces: the header, or a thrown
\* value with its message ("" for a value without one)
SignOutcomes ==
  {[ok |-> TRUE, message |-> ""],
   [ok |-> FALSE, message |-> "User rejected the request"],
   [ok |-> FALSE, message |-> ""]}

\* one logical request on its way through the interceptor
NewFlow ==
  [cpc |-> "idle", config |-> FreshConfig, wire |-> <<>>, selectCalls |-> <<>>,
   signCalls |-> <<>>, selected |-> <<>>, responses |-> <<>>, signResp |-> <<>>,
   outcome |-> NoOutcome]

\* axiosClient.request(config) of a caller: a config of its own goes out
requestSent(f) ==
  [NewFlow EXCEPT !.cpc = "awaitResponse", !.wire = <<FreshConfig>>]

settled_Dropped(f, out) == [f EXCEPT !.cpc = "hung"]

\* the handler returns: the caller's promise resolves or rejects
settled(f, out) ==
  [f EXCEPT !.cpc = IF out.kind = "resolved" THEN "resolved" ELSE "rejected",
            !.outcome = out]

passThrough_Wrapped(o) ==
  IF o.status = 200 THEN Resolved(o) ELSE RejectedNew("Request failed")

\* a response that is not a 402: `response => response`, or
\* Promise.reject(error)
passThrough(o) ==
  IF o.status = 200 THEN Resolved(o) ELSE RejectedWith(o)

AlreadyRetried_FlagIgnored(cfg) == FALSE

\* the request config already carries the retry flag
AlreadyRetried(cfg) == cfg.is402Retry

ResponseDataError_AcceptsUnchecked(d) ==
  IF d.form = "string" /\ d.value = "unparseable"
  THEN "Invalid 402 response format: expected JSON"
  ELSE IF d.value # "object"
  THEN "Invalid 402 response: data is not an object"
  ELSE IF d.x402Version # "number"
  THEN "Invalid 402 response: missing or invalid x402Version"
  ELSE ""

\* the checks on error.response.data: the message of the rejection, "" when
\* the body passes
ResponseDataError(d) ==
  IF d.form = "string" /\ d.value = "unparseable"
  THEN "Invalid 402 response format: expected JSON"
  ELSE IF d.value # "object"
  THEN "Invalid 402 response: data is not an object"
  ELSE IF d.x402Version # "number"
  THEN "Invalid 402 response: missing or invalid x402Version"
  ELSE IF d.accepts # "array"
  THEN "Invalid 402 response: missing or invalid accepts array"
  ELSE ""

parseAccepts_MalformedSkipped(accepts) ==
  [throws |-> FALSE, value |-> SelectSeq(accepts, LAMBDA x : ~SchemaRejects(x))]

\* accepts.map(x => PaymentRequirementsSchema.parse(x)): [throws, value]
parseAccepts(accepts) ==
  IF \E i \in 1..Len(accepts) : SchemaRejects(accepts[i])
  THEN [throws |-> TRUE, value |-> <<>>]
  ELSE [throws |-> FALSE, value |-> accepts]

interceptResponse_SignsFirst(f, w, o) ==
  LET g == [f EXCEPT !.responses = Append(f.responses, o)]
  IN IF o.status # 402
     THEN settled(g, passThrough(o))
     ELSE IF ~o.hasConfig
     THEN settled(g, RejectedNew("Missing axios request configuration"))
     ELSE IF AlreadyRetried(g.wire[Len(g.wire)])
     THEN settled(g, RejectedWith(o))
     ELSE IF ResponseDataError(o.data) # ""
     THEN settled(g, RejectedNew(ResponseDataError(o.data)))
     ELSE IF parseAccepts(o.data.elements).throws
     THEN settled(g, RejectedNew("Failed to parse payment requirements"))
     ELSE
       LET parsed == parseAccepts(o.data.elements).value
           sel == selectPaymentRequirements(parsed, NetworkOf(w), "exact")
           h == [g EXCEPT !.selectCalls = Append(g.selectCalls, parsed)]
       IN IF sel.throws
          THEN settled(h, RejectedNew("Failed to select payment requirements"))
          ELSE [h EXCEPT !.selected = sel.value,
                         !.signCalls = Append(h.signCalls, parsed[1]),
                         !.cpc = "awaitSign"]

\* the response interceptor on an answer o to the request in flight, with
\* wallet client w: the success handler, or the error handler up to
\* `await createPaymentHeader`
interceptResponse(f, w, o) ==
  LET g == [f EXCEPT !.responses = Append(f.responses, o)]
  IN IF o.status # 402
     THEN settled(g, passThrough(o))
     ELSE IF ~o.hasConfig
     THEN settled(g, RejectedNew("Missing axios request configuration"))
     ELSE IF AlreadyRetried(g.wire[Len(g.wire)])
     THEN settled(g, RejectedWith(o))
     ELSE IF ResponseDataError(o.data) # ""
     THEN settled(g, RejectedNew(ResponseDataError(o.data)))
     ELSE IF parseAccepts(o.data.elements).throws
     THEN settled(g, RejectedNew("Failed to parse payment requirements"))
     ELSE
       LET parsed == parseAccepts(o.data.elements).value
           sel == selectPaymentRequirements(parsed, NetworkOf(w), "exact")
           h == [g EXCEPT !.selectCalls = Append(g.selectCalls, parsed)]
       IN IF sel.throws
          THEN settled(h, RejectedNew("Failed to select payment requirements"))
          ELSE [h EXCEPT !.selected = sel.value,
                         !.signCalls = Append(h.signCalls, sel.value[1]),
                         !.cpc = "awaitSign"]

signFailure_Bare(s) == RejectedNew("Failed to create payment header")

\* new Error(`Failed to create payment header: ${signError.message || signError}`)
signFailure(s) ==
  [RejectedNew("Failed to create payment header") EXCEPT
     !.cause = IF s.message # "" THEN s.message ELSE "Error"]

RetryConfig_HeaderMissing(cfg, paymentHeader) ==
  [cfg EXCEPT !.is402Retry = TRUE]

\* the config of the reissued request: the original config, flagged and
\* carrying the payment header
RetryConfig(cfg, paymentHeader) ==
  [cfg EXCEPT !.is402Retry = TRUE, !.xPayment = paymentHeader]

\* the error handler from the answer s of createPaymentHeader to the retry
afterCreatePaymentHeader(f, s) ==
  IF ~s.ok
  THEN settled([f EXCEPT !.signResp = Append(f.signResp, s)], signFailure(s))
  ELSE [f EXCEPT
          !.signResp = Append(f.signResp, s),
          !.config = RetryConfig(f.config, createPaymentHeader(x402Version, f.selected[1])),
          !.wire = Append(f.wire,
                     RetryConfig(f.config, createPaymentHeader(x402Version, f.selected[1]))),
          !.cpc = "awaitResponse"]

\* the logical request of the single-request specifications
Flow ==
  [cpc |-> cpc, config |-> config, wire |-> wire, selectCalls |-> selectCalls,
   signCalls |-> signCalls, selected |-> selected, responses |-> responses,
   signResp |-> signResp, outcome |-> outcome]

\* the single logical request becomes f
FlowBecomes(f) ==
  /\ cpc' = f.cpc
  /\ config' = f.config
  /\ wire' = f.wire
  /\ selectCalls' = f.selectCalls
  /\ signCalls' = f.signCalls
  /\ selected' = f.selected
  /\ responses' = f.responses
  /\ signResp' = f.signResp
  /\ outcome' = f.outcome

ClientIdle ==
  /\ cpc = "idle"
  /\ config = FreshConfig
  /\ wire = <<>>
  /\ selectCalls = <<>>
  /\ signCalls = <<>>
  /\ selected = <<>>
  /\ responses = <<>>
  /\ signResp = <<>>
  /\ outcome = NoOutcome
  /\ flows = [i \in 1..MaxFlows |-> NewFlow]

ClientInit ==
  /\ ClientIdle
  /\ wallet \in Wallets

\* the caller issues a request through the intercepted axios client
SendRequest ==
  /\ cpc \in {"idle", "resolved", "rejected"}
  /\ FlowBecomes(requestSent(Flow))
  /\ UNCHANGED <<wallet, flows, svars, xvars, yvars>>

\* the interceptor runs on the answer to the request in flight
ResponseArrives(o) ==
  /\ cpc = "awaitResponse"
  /\ FlowBecomes(interceptResponse(Flow, wallet, o))
  /\ UNCHANGED <<wallet, flows, svars, xvars, yvars>>

\* createPaymentHeader answers and the error handler goes on to the retry
SignReturns(s) ==
  /\ cpc = "awaitSign"
  /\ s.ok => Len(wire) < MaxWire
  /\ FlowBecomes(afterCreatePaymentHeader(Flow, s))
  /\ UNCHANGED <<wallet, flows, svars, xvars, yvars>>

ClientNext ==
  \/ SendRequest
  \/ \E o \in HttpOutcomes : ResponseArrives(o)
  \/ \E s \in SignOutcomes : SignReturns(s)

\* ------------------------------------------------------------ the seller demo
MERCHANT_ADDR == "0xHyperAGIMerchantWallet"

\* the paymentRequirements object of GET /paid
SellerRequirements ==
  [scheme |-> "exact", network |-> "base-mainnet", asset |-> "USDC",
   amount |-> "0.01", payTo |-> MERCHANT_ADDR]

\* req.header("X-PAYMENT") at the seller: undefined, "" or a value
SellerHeaders == {Undefined, Str(""), Str("paymentHeader")}

\* a JSON body the seller writes; a key it does not write is JsonAbsent
SellerBody(version, error, reason, requirements) ==
  [x402Version |-> version, error |-> error, accepts |-> JsonAbsent,
   reason |-> reason, paymentRequirements |-> requirements]

\* { x402Version: "1", paymentRequirements, facilitator: FACILITATOR_URL }
SellerPaymentRequired ==
  [status |-> 402,
   body |-> SellerBody(Str("1"), JsonAbsent, JsonAbsent, <<SellerRequirements>>)]

\* { reason: ... }
SellerRejected(reason) ==
  [status |-> 402, body |-> SellerBody(JsonAbsent, JsonAbsent, reason, <<>>)]

\* res.status(500).json({ error: String(e) })
SellerFailed ==
  [status |-> 500, body |-> SellerBody(JsonAbsent, Str("Error"), JsonAbsent, <<>>)]

\* { ok: true, txHash, data }
SellerDelivered ==
  [status |-> 200, body |-> SellerBody(JsonAbsent, JsonAbsent, JsonAbsent, <<>>)]

\* JSON.stringify({ x402Version: "1", paymentHeader, paymentRequirements })
SellerFacilitatorBody(h) ==
  [json |-> TRUE, x402Version |-> Str("1"), paymentPayload |-> <<>>,
   paymentHeader |-> <<h>>, paymentRequirements |-> <<SellerRequirements>>]

\* what fetch and .json() give the seller: a rejected fetch, a body that is
\* not JSON, or a JSON object with its isValid / success, invalidReason and
\* error fields
SellerFetchOutcomes ==
  {[kind |-> "reject", ok |-> FALSE, invalidReason |-> Undefined, error |-> Undefined],
   [kind |-> "text", ok |-> FALSE, invalidReason |-> Undefined, error |-> Undefined]}
  \cup {[kind |-> "json", ok |-> k, invalidReason |-> r, error |-> e] :
          k \in BOOLEAN,
          r \in {Undefined, Str("invalid_payment_requirements")},
          e \in {Undefined, Str("settle failed")}}

SellerIdle ==
  seller = [pc |-> "idle", paymentHeader |-> Undefined, calls |-> <<>>, sent |-> <<>>]

\* app.get("/paid") up to the 402 or to the fetch of /verify
SellerReceives(h) ==
  /\ seller.pc = "idle"
  /\ Len(seller.sent) < MaxRequests
  /\ seller' =
       IF ~Truthy(h)
       THEN [seller EXCEPT !.paymentHeader = h,
                           !.sent = Append(@, SellerPaymentRequired)]
       ELSE [seller EXCEPT !.paymentHeader = h,
                           !.pc = "awaitVerify",
                           !.calls = Append(@, [endpoint |-> "/verify",
                                                body |-> SellerFacilitatorBody(h)])]
  /\ UNCHANGED <<svars, cvars, fac, hdr, b64, yvars>>

\* the fetch of /verify ends, up to the answer or to the fetch of /settle
SellerVerifyReturns(o) ==
  /\ seller.pc = "awaitVerify"
  /\ seller' =
       IF o.kind # "json"
       THEN [seller EXCEPT !.pc = "idle", !.sent = Append(@, SellerFailed)]
       ELSE IF ~o.ok
       THEN [seller EXCEPT
               !.pc = "idle",
               !.sent = Append(@, SellerRejected(
                          OrElse(o.invalidReason, Str("verify_failed"))))]
       ELSE [seller EXCEPT
               !.pc = "awaitSettle",
               !.calls = Append(@, [endpoint |-> "/settle",
                                    body |-> SellerFacilitatorBody(seller.paymentHeader)])]
  /\ UNCHANGED <<svars, cvars, fac, hdr, b64, yvars>>

\* the fetch of /settle ends, up to the answer
SellerSettleReturns(o) ==
  /\ seller.pc = "awaitSettle"
  /\ seller' =
       IF o.kind # "json"
       THEN [seller EXCEPT !.pc = "idle", !.sent = Append(@, SellerFailed)]
       ELSE IF ~o.ok
       THEN [seller EXCEPT
               !.pc = "idle",
               !.sent = Append(@, SellerRejected(
                          OrElse(o.error, Str("settlement_failed"))))]
       ELSE [seller EXCEPT !.pc = "idle", !.sent = Append(@, SellerDelivered)]
  /\ UNCHANGED <<svars, cvars, fac, hdr, b64, yvars>>

SellerNext ==
  \/ \E h \in SellerHeaders : SellerReceives(h)
  \/ \E o \in SellerFetchOutcomes : SellerVerifyReturns(o)
  \/ \E o \in SellerFetchOutcomes : SellerSettleReturns(o)

\* ------------------------------------------------- the payment header lookup
\* names a client may write the header under, and values it may give it
HeaderNames == {"X-PAYMENT", "x-payment", "X-Payment"}
HeaderValues == {"", "a", "b"}

\* the header lines of a request, in the order sent
RawHeaders ==
  UNION {[1..n -> [name : HeaderNames, value : HeaderValues]] : n \in 0..MaxHeaderLines}

\* String.prototype.toLowerCase on a header name
toLowerCase(name) == IF name \in HeaderNames THEN "x-payment" ELSE name

\* req.headers[key], Node's IncomingMessage.headers: names are stored in
\* lower case and the values of lines with one name are joined with ", ";
\* <<>> is undefined, <<v1, ..., vn>> the string "v1, ..., vn"
RECURSIVE incomingHeader(_, _)
incomingHeader(raw, key) ==
  IF raw = <<>> THEN <<>>
  ELSE IF toLowerCase(Head(raw).name) = key
       THEN <<Head(raw).value>> \o incomingHeader(Tail(raw), key)
       ELSE incomingHeader(Tail(raw), key)

\* Express req.header(name): req.headers[name.toLowerCase()]
reqHeader(raw, name) == incomingHeader(raw, toLowerCase(name))

\* a joined header value is falsy when undefined or ""
JoinedTruthy(v) == v # <<>> /\ v # <<"">>

\* the `payment` of verifyPayment
paymentOf(raw) ==
  LET paymentHeader == IF JoinedTruthy(reqHeader(raw, "X-PAYMENT"))
                       THEN reqHeader(raw, "X-PAYMENT")
                       ELSE reqHeader(raw, "x-payment")
      paymentHeaders == IF JoinedTruthy(incomingHeader(raw, "x-payment"))
                        THEN incomingHeader(raw, "x-payment")
                        ELSE incomingHeader(raw, "X-PAYMENT")
  IN IF JoinedTruthy(paymentHeader) THEN paymentHeader ELSE paymentHeaders

\* verifyPayment looks the payment header of a request up
HeaderLookup(raw) ==
  /\ hdr' = [raw |-> raw, payment |-> paymentOf(raw)]
  /\ UNCHANGED <<svars, cvars, seller, fac, b64, yvars>>

HeaderNext == \E raw \in RawHeaders : HeaderLookup(raw)

\* ---------------------------------------------------------- base64 helpers
\* A base64 string is a sequence of characters: 0..63 is the character of the
\* alphabet A-Za-z0-9+/ with that value, PAD is '=', WS a whitespace
\* character, BAD any other character. A text is a sequence of code points.
PAD == 64
WS == 65
BAD == 66

\* Base64EncodedRegex = /^[A-Za-z0-9+/]*={0,2}$/
Base64EncodedRegex(str) ==
  \E k \in 0..2 :
    /\ k <= Len(str)
    /\ \A i \in 1..(Len(str) - k) : str[i] \in 0..63
    /\ \A i \in (Len(str) - k + 1)..Len(str) : str[i] = PAD

trimWhitespace_EndsOnly(data) ==
  LET keep == {i \in 1..Len(data) : data[i] # WS}
  IN IF keep = {} THEN <<>>
     ELSE SubSeq(data, CHOOSE i \in keep : \A j \in keep : i <= j,
                       CHOOSE i \in keep : \A j \in keep : i >= j)

\* data.replace(BASE64_TRIM_REGEX, ""): every whitespace character removed
trimWhitespace(data) == SelectSeq(data, LAMBDA c : c # WS)

normalizeBase64Input_LengthOnly(data) ==
  LET normalized == trimWhitespace(data)
  IN IF Len(normalized) = 0 \/ Len(normalized) % 4 # 0
     THEN [throws |-> TRUE, value |-> <<>>]
     ELSE [throws |-> FALSE, value |-> normalized]

\* normalizeBase64Input: [throws, value]
normalizeBase64Input(data) ==
  LET normalized == trimWhitespace(data)
  IN IF \/ Len(normalized) = 0
        \/ Len(normalized) % 4 # 0
        \/ ~Base64EncodedRegex(normalized)
     THEN [throws |-> TRUE, value |-> <<>>]
     ELSE [throws |-> FALSE, value |-> normalized]

\* the bytes of a text in UTF-8 (code points below 0x10000)
RECURSIVE utf8Encode(_)
utf8Encode(text) ==
  IF text = <<>> THEN <<>>
  ELSE LET c == Head(text)
       IN (IF c < 128 THEN <<c>>
           ELSE IF c < 2048 THEN <<192 + (c \div 64), 128 + (c % 64)>>
           ELSE <<224 + (c \div 4096), 128 + ((c \div 64) % 64), 128 + (c % 64)>>)
          \o utf8Encode(Tail(text))

\* the text of bytes read as UTF-8; a byte that starts no sequence becomes
\* U+FFFD
RECURSIVE utf8Decode(_)
utf8Decode(bytes) ==
  IF bytes = <<>> THEN <<>>
  ELSE LET b == Head(bytes)
           cont(i) == Len(bytes) >= i /\ bytes[i] \in 128..191
       IN IF b < 128 THEN <<b>> \o utf8Decode(Tail(bytes))
          ELSE IF b \in 194..223 /\ cont(2)
          THEN <<(b - 192) * 64 + (bytes[2] - 128)>>
               \o utf8Decode(SubSeq(bytes, 3, Len(bytes)))
          ELSE IF b \in 224..239 /\ cont(2) /\ cont(3)
          THEN <<(b - 224) * 4096 + (bytes[2] - 128) * 64 + (bytes[3] - 128)>>
               \o utf8Decode(SubSeq(bytes, 4, Len(bytes)))
          ELSE <<65533>> \o utf8Decode(Tail(bytes))

\* base64 of a byte sequence: three bytes to four characters, the last
\* group padded with '='
RECURSIVE encodeBase64(_)
encodeBase64(bytes) ==
  IF bytes = <<>> THEN <<>>
  ELSE IF Len(bytes) = 1
  THEN <<bytes[1] \div 4, (bytes[1] % 4) * 16, PAD, PAD>>
  ELSE IF Len(bytes) = 2
  THEN <<bytes[1] \div 4, (bytes[1] % 4) * 16 + (bytes[2] \div 16),
         (bytes[2] % 16) * 4, PAD>>
  ELSE <<bytes[1] \div 4, (bytes[1] % 4) * 16 + (bytes[2] \div 16),
         (bytes[2] % 16) * 4 + (bytes[3] \div 64), bytes[3] % 64>>
       \o encodeBase64(SubSeq(bytes, 4, Len(bytes)))

\* the bytes of the characters of a base64 string without its padding: four
\* characters to three bytes, a last group of three to two, of two to one
RECURSIVE decodeBase64(_)
decodeBase64(chars) ==
  IF Len(chars) < 2 THEN <<>>
  ELSE IF Len(chars) = 2
  THEN <<chars[1] * 4 + (chars[2] \div 16)>>
  ELSE IF Len(chars) = 3
  THEN <<chars[1] * 4 + (chars[2] \div 16), (chars[2] % 16) * 16 + (chars[3] \div 4)>>
  ELSE <<chars[1] * 4 + (chars[2] \div 16), (chars[2] % 16) * 16 + (chars[3] \div 4),
         (chars[3] % 4) * 64 + chars[4]>>
       \o decodeBase64(SubSeq(chars, 5, Len(chars)))

\* what a helper gives: a value, or a thrown Error with its message
Returned(v) == [throws |-> FALSE, error |-> "", value |-> v]
Thrown(message) == [throws |-> TRUE, error |-> message, value |-> <<>>]

safeBase64Encode_Unpadded(data, hasBtoa) ==
  IF hasBtoa
  THEN IF \E i \in 1..Len(data) : data[i] > 255
       THEN Thrown("InvalidCharacterError")
       ELSE Returned(SelectSeq(encodeBase64(data), LAMBDA c : c # PAD))
  ELSE Returned(SelectSeq(encodeBase64(utf8Encode(data)), LAMBDA c : c # PAD))

\* safeBase64Encode: globalThis.btoa where there is one (it takes each code
\* point as a byte and throws above 0xFF), Buffer.from(data) otherwise
safeBase64Encode(data, hasBtoa) ==
  IF hasBtoa
  THEN IF \E i \in 1..Len(data) : data[i] > 255
       THEN Thrown("InvalidCharacterError")
       ELSE Returned(encodeBase64(data))
  ELSE Returned(encodeBase64(utf8Encode(data)))

\* safeBase64Decode: globalThis.atob where there is one (each byte a code
\* point), Buffer.from(normalized, "base64").toString("utf-8") otherwise
safeBase64Decode(data, hasAtob) ==
  IF normalizeBase64Input(data).throws THEN Thrown("Invalid base64 string")
  ELSE LET bytes == decodeBase64(SelectSeq(normalizeBase64Input(data).value,
                                           LAMBDA c : c # PAD))
       IN Returned(IF hasAtob THEN bytes ELSE utf8Decode(bytes))

\* JSON whitespace: space, tab, line feed, carriage return
JsonWhitespace == {32, 9, 10, 13}

RECURSIVE digitsValue(_)
digitsValue(digits) ==
  IF digits = <<>> THEN 0
  ELSE digitsValue(SubSeq(digits, 1, Len(digits) - 1)) * 10 + (digits[Len(digits)] - 48)

\* JSON.parse on the texts of the model, whose characters are digits, braces,
\* whitespace and characters no JSON token has: a number without sign,
\* fraction or exponent, or an empty object, between optional whitespace
JsonParse(text) ==
  LET ink == {i \in 1..Len(text) : text[i] \notin JsonWhitespace}
  IN IF ink = {} THEN Thrown("Unexpected end of JSON input")
     ELSE LET first == CHOOSE i \in ink : \A j \in ink : i <= j
              last == CHOOSE i \in ink : \A j \in ink : i >= j
              core == SubSeq(text, first, last)
          IN IF /\ \A i \in 1..Len(core) : core[i] \in 48..57
                /\ Len(core) > 1 => core[1] # 48
             THEN Returned(<<"number", digitsValue(core)>>)
             ELSE IF /\ Len(core) >= 2
                     /\ core[1] = 123
                     /\ core[Len(core)] = 125
                     /\ \A i \in 2..(Len(core) - 1) : core[i] \in JsonWhitespace
             THEN Returned(<<"object">>)
             ELSE Thrown("Unexpected token")

\* JSON.stringify of a non-negative integer or of {}
RECURSIVE JsonStringify(_)
JsonStringify(v) ==
  IF v[1] = "object" THEN <<123, 125>>
  ELSE IF v[2] < 10 THEN <<48 + v[2]>>
  ELSE JsonStringify(<<"number", v[2] \div 10>>) \o <<48 + (v[2] % 10)>>

safeBase64DecodeJson_OneMessage(data, hasAtob) ==
  IF safeBase64Decode(data, hasAtob).throws
  THEN Thrown("Invalid JSON payload")
  ELSE IF JsonParse(safeBase64Decode(data, hasAtob).value).throws
  THEN Thrown("Invalid JSON payload")
  ELSE JsonParse(safeBase64Decode(data, hasAtob).value)

\* safeBase64DecodeJson
safeBase64DecodeJson(data, hasAtob) ==
  IF safeBase64Decode(data, hasAtob).throws
  THEN safeBase64Decode(data, hasAtob)
  ELSE IF JsonParse(safeBase64Decode(data, hasAtob).value).throws
  THEN Thrown("Invalid JSON payload")
  ELSE JsonParse(safeBase64Decode(data, hasAtob).value)

\* the texts handed to safeBase64Encode: up to MaxText characters out of
\* '1', '{', '}' and 'é'
TextChars == {49, 123, 125, 233}
Texts == UNION {[1..n -> TextChars] : n \in 0..MaxText}

InsertAt(str, i, c) == SubSeq(str, 1, i - 1) \o <<c>> \o SubSeq(str, i, Len(str))

\* a base64 string as it is, with one or two whitespace characters put in, or
\* with one character replaced by '=', by whitespace or by a character
\* outside the alphabet
Mangled(str) ==
  {str}
  \cup {InsertAt(str, i, WS) : i \in 1..(Len(str) + 1)}
  \cup {InsertAt(InsertAt(str, i, WS), j, WS) :
          i \in 1..(Len(str) + 1), j \in 1..(Len(str) + 2)}
  \cup {[str EXCEPT ![i] = c] : i \in 1..Len(str), c \in {PAD, WS, BAD}}

\* the strings handed to the decoders: the encodings of the texts, mangled
Base64Inputs ==
  UNION {Mangled(safeBase64Encode(t, b).value) : t \in Texts, b \in BOOLEAN}

\* a call of a helper not yet made; origin is <<>>, or the text whose
\* encoding the call decodes
PendingCall(fn, input, env) ==
  [fn |-> fn, input |-> input, env |-> env, done |-> FALSE,
   result |-> Returned(<<>>), origin |-> <<>>]

\* the strings made of whitespace only, the empty one among them
WhitespaceOnly == UNION {[1..n -> {WS}] : n \in 0..MaxText}

\* the texts taken through safeBase64Decode(safeBase64Encode(s)): up to
\* MaxText characters out of '1', U+00E9 and U+20AC
RoundTripTexts == UNION {[1..n -> {49, 233, 8364}] : n \in 0..MaxText}

\* safeBase64Decode(safeBase64Encode(data)) on one runtime
roundTrip(data, env) ==
  IF safeBase64Encode(data, env).throws THEN safeBase64Encode(data, env)
  ELSE safeBase64Decode(safeBase64Encode(data, env).value, env)

Base64Calls ==
  {PendingCall("encode", t, e) : t \in Texts, e \in BOOLEAN}
  \cup {PendingCall(fn, d, e) :
          fn \in {"decode", "decodeJson"}, d \in Base64Inputs, e \in BOOLEAN}
  \cup {PendingCall("decode", d, e) : d \in WhitespaceOnly, e \in BOOLEAN}
  \cup {PendingCall("roundTrip", t, e) : t \in RoundTripTexts, e \in BOOLEAN}

\* the pending call is made
Base64Call ==
  /\ b64 # <<>>
  /\ ~b64[1].done
  /\ b64' = <<[b64[1] EXCEPT
                 !.done = TRUE,
                 !.result = CASE b64[1].fn = "encode" ->
                                   safeBase64Encode(b64[1].input, b64[1].env)
                              [] b64[1].fn = "decode" ->
                                   safeBase64Decode(b64[1].input, b64[1].env)
                              [] b64[1].fn = "roundTrip" ->
                                   roundTrip(b64[1].input, b64[1].env)
                              [] OTHER ->
                                   safeBase64DecodeJson(b64[1].input, b64[1].env)]>>
  /\ UNCHANGED <<svars, cvars, seller, fac, hdr, yvars>>

\* an encoded text travels as a header and its receiver, on a runtime of its
\* own, decodes it as JSON
HeaderDecoded(hasAtob) ==
  /\ b64 # <<>>
  /\ b64[1].done
  /\ b64[1].fn = "encode"
  /\ ~b64[1].result.throws
  /\ b64' = <<[fn |-> "decodeJson", input |-> b64[1].result.value, env |-> hasAtob,
               done |-> TRUE,
               result |-> safeBase64DecodeJson(b64[1].result.value, hasAtob),
               origin |-> <<b64[1].input>>]>>
  /\ UNCHANGED <<svars, cvars, seller, fac, hdr, yvars>>

Base64Next ==
  \/ Base64Call
  \/ \E hasAtob \in BOOLEAN : HeaderDecoded(hasAtob)

\* ------------------------------------------------- the paywall page (paywall)
\* A text is a sequence of code points.  The bound on the length of a dynamic
\* input of getPaywallHtml:
MaxInput == 2

\* ESCAPE_LOOKUP, by code point: \ " ' ` \n \r \t \b \f U+2028 U+2029 < > & = /
ESCAPE_LOOKUP ==
  [c \in {92, 34, 39, 96, 10, 13, 9, 8, 12, 8232, 8233, 60, 62, 38, 61, 47} |->
     CASE c = 92 -> <<92, 92>>
       [] c = 34 -> <<92, 34>>
       [] c = 39 -> <<92, 39>>
       [] c = 96 -> <<92, 117, 48, 48, 54, 48>>
       [] c = 10 -> <<92, 110>>
       [] c = 13 -> <<92, 114>>
       [] c = 9 -> <<92, 116>>
       [] c = 8 -> <<92, 98>>
       [] c = 12 -> <<92, 102>>
       [] c = 8232 -> <<92, 117, 50, 48, 50, 56>>
       [] c = 8233 -> <<92, 117, 50, 48, 50, 57>>
       [] c = 60 -> <<92, 117, 48, 48, 51, 67>>
       [] c = 62 -> <<92, 117, 48, 48, 51, 69>>
       [] c = 38 -> <<92, 117, 48, 48, 50, 54>>
       [] c = 61 -> <<92, 117, 48, 48, 51, 68>>
       [] OTHER -> <<92, 117, 48, 48, 50, 70>>]

ESCAPE_REGEX_QuotesOnly == {92, 39, 34, 10, 13, 9}

\* ESCAPE_REGEX: the class of \ ' " ` \b \f \n \r \t U+2028 U+2029 < > & = and /
ESCAPE_REGEX == {92, 39, 34, 96, 8, 12, 10, 13, 9, 8232, 8233, 60, 62, 38, 61, 47}

\* str.replace(ESCAPE_REGEX, char => ESCAPE_LOOKUP[char] ?? char)
RECURSIVE escapeString(_)
escapeString(str) ==
  IF str = <<>> THEN <<>>
  ELSE (IF Head(str) \in ESCAPE_REGEX
        THEN (IF Head(str) \in DOMAIN ESCAPE_LOOKUP
              THEN ESCAPE_LOOKUP[Head(str)]
              ELSE <<Head(str)>>)
        ELSE <<Head(str)>>) \o escapeString(Tail(str))

\* "</head>", "<script>" and "</script>"
HeadClose == <<60, 47, 104, 101, 97, 100, 62>>
ScriptOpen == <<60, 115, 99, 114, 105, 112, 116, 62>>
ScriptClose == <<60, 47, 115, 99, 114, 105, 112, 116, 62>>

\* PAYWALL_TEMPLATE (./gen/template): a page with a head, "<head></head>"
PAYWALL_TEMPLATE == <<60, 104, 101, 97, 100, 62>> \o HeadClose

\* value || "" of an optional string
orEmpty(v) == IF v[1] = "undefined" THEN <<>> ELSE v[2]

\* "${escapeString(value)}": the value as a string literal
quoted(value) == <<34>> \o escapeString(value) \o <<34>>

\* configScript: the script element with the five string literals, in the
\* order of the source; the text between them (property names, the numbers
\* and JSON of the other options, indentation) is a comma here
configScript(options) ==
  ScriptOpen
    \o quoted(options.currentUrl[2]) \o <<44>>
    \o quoted(orEmpty(options.cdpClientKey)) \o <<44>>
    \o quoted(orEmpty(options.appName)) \o <<44>>
    \o quoted(orEmpty(options.appLogo)) \o <<44>>
    \o quoted(orEmpty(options.sessionTokenEndpoint))
    \o ScriptClose

\* String.prototype.indexOf: where pat first occurs in str, 0 when nowhere
startsAt(str, pat, i) ==
  /\ i + Len(pat) - 1 <= Len(str)
  /\ SubSeq(str, i, i + Len(pat) - 1) = pat
indexOf(str, pat) ==
  IF \E i \in 1..Len(str) : startsAt(str, pat, i)
  THEN CHOOSE i \in 1..Len(str) :
         startsAt(str, pat, i) /\ \A j \in 1..(i - 1) : ~startsAt(str, pat, j)
  ELSE 0

\* GetSubstitution of String.prototype.replace with a string pattern: in the
\* replacement $$ is $, $& the match, $` the text before it, $' the text
\* after it, any other character itself
RECURSIVE GetSubstitution(_, _, _, _)
GetSubstitution(matched, str, position, replacement) ==
  IF replacement = <<>> THEN <<>>
  ELSE IF Head(replacement) = 36 /\ Len(replacement) >= 2
          /\ replacement[2] \in {36, 38, 96, 39}
       THEN (CASE replacement[2] = 36 -> <<36>>
               [] replacement[2] = 38 -> matched
               [] replacement[2] = 96 -> SubSeq(str, 1, position - 1)
               [] OTHER -> SubSeq(str, position + Len(matched), Len(str)))
              \o GetSubstitution(matched, str, position, Tail(Tail(replacement)))
       ELSE <<Head(replacement)>>
              \o GetSubstitution(matched, str, position, Tail(replacement))

\* str.replace(pat, replacement): the first occurrence replaced
replace(str, pat, replacement) ==
  LET position == indexOf(str, pat)
  IN IF position = 0 THEN str
     ELSE SubSeq(str, 1, position - 1)
            \o GetSubstitution(pat, str, position, replacement)
            \o SubSeq(str, position + Len(pat), Len(str))

\* PAYWALL_TEMPLATE.replace("</head>", `${configScript}\n</head>`)
getPaywallHtml(options) ==
  replace(PAYWALL_TEMPLATE, HeadClose, configScript(options) \o <<10>> \o HeadClose)

\* the characters an input is made of: the sixteen escaped ones without \b
\* and \f, then $ and a
InputChars == {92, 34, 39, 96, 10, 13, 9, 8232, 8233, 60, 62, 38, 61, 47, 36, 97}
InputTexts == UNION {[1..n -> InputChars] : n \in 0..MaxInput}
OptionNames ==
  {"currentUrl", "cdpClientKey", "appName", "appLogo", "sessionTokenEndpoint"}

\* the options of a call: one of the five strings is any text, currentUrl
\* is otherwise "a" and an optional string otherwise left out
PaywallOptions ==
  {[n \in OptionNames |->
      IF n = name THEN Str(t)
      ELSE IF n = "currentUrl" THEN Str(<<97>>) ELSE Undefined] :
     name \in OptionNames, t \in InputTexts}

\* getPaywallHtml is called with the options drawn
PaywallCall ==
  /\ pw # <<>>
  /\ ~pw[1].done
  /\ pw' = <<[pw[1] EXCEPT !.done = TRUE, !.html = getPaywallHtml(pw[1].options)]>>
  /\ UNCHANGED <<svars, cvars, xvars, ux, gen>>

PaywallNext == PaywallCall

\* everything outside the advanced server and the interceptor at rest
OthersIdle ==
  /\ SellerIdle
  /\ fac = <<>>
  /\ hdr = [raw |-> <<>>, payment |-> <<>>]
  /\ b64 = <<>>
  /\ pw = <<>>
  /\ ux = <<>>
  /\ gen = <<>>

ServerIdle ==
  /\ ServerInit
  /\ redis = RedisNew
  /\ redisReady

InitClient ==
  /\ ClientInit
  /\ ServerIdle
  /\ OthersIdle

SpecClient == InitClient /\ [][ClientNext]_vars

\* The client when the HTTP client and the signer each eventually return or
\* throw: an awaited request is answered, an awaited createPaymentHeader ends.
\* The answers are every kind of answer, the 402 bodies with at most one
\* element in accepts.
FairOutcomes ==
  {o \in HttpOutcomes : o.status = 402 => Len(o.data.elements) <= 1}

ClientFairNext ==
  \/ SendRequest
  \/ \E o \in FairOutcomes : ResponseArrives(o)
  \/ \E s \in SignOutcomes : SignReturns(s)

SpecClientFair ==
  /\ InitClient
  /\ [][ClientFairNext]_vars
  /\ WF_vars(\E o \in FairOutcomes : ResponseArrives(o))
  /\ WF_vars(\E s \in SignOutcomes : SignReturns(s))

\* ------------------------------------------- several requests, one axios client
\* what the concurrent requests are answered with: a plain 200, a 500, a 402
\* whose error has no config, and the 402 bodies with one element in accepts
ConcurrentOutcomes ==
  {o \in HttpOutcomes :
     /\ o.status # 0
     /\ o.status = 200 => Len(o.xPaymentResponse) = 0
     /\ (o.status = 402 /\ o.hasConfig) =>
          /\ o.data.form = "object"
          /\ o.data.x402Version = "number"
          /\ o.data.accepts = "array"
          /\ Len(o.data.elements) = 1}

errorOf_SharedFlag(fs, i) ==
  IF fs[i].wire # <<>> /\ \E j \in DOMAIN fs : fs[j].config.is402Retry
  THEN [fs[i] EXCEPT !.wire[Len(fs[i].wire)].is402Retry = TRUE]
  ELSE fs[i]

\* the error the handler is called with for request i: error.config is the
\* config axios built for that request, error.response its answer
errorOf(fs, i) == fs[i]

\* a caller issues request i without waiting for the others
ConcurrentSend(i) ==
  /\ flows[i].cpc = "idle"
  /\ flows' = [flows EXCEPT ![i] = requestSent(flows[i])]
  /\ UNCHANGED <<cpc, wallet, config, wire, selectCalls, signCalls, selected,
                 responses, signResp, outcome, svars, xvars, yvars>>

\* the interceptor runs on the answer to request i
ConcurrentResponse(i, o) ==
  /\ flows[i].cpc = "awaitResponse"
  /\ flows' = [flows EXCEPT ![i] = interceptResponse(errorOf(flows, i), wallet, o)]
  /\ UNCHANGED <<cpc, wallet, config, wire, selectCalls, signCalls, selected,
                 responses, signResp, outcome, svars, xvars, yvars>>

\* createPaymentHeader answers the handler of request i
ConcurrentSign(i, s) ==
  /\ flows[i].cpc = "awaitSign"
  /\ s.ok => Len(flows[i].wire) < MaxWire
  /\ flows' = [flows EXCEPT ![i] = afterCreatePaymentHeader(flows[i], s)]
  /\ UNCHANGED <<cpc, wallet, config, wire, selectCalls, signCalls, selected,
                 responses, signResp, outcome, svars, xvars, yvars>>

ConcurrentNext ==
  \/ \E i \in 1..MaxFlows : ConcurrentSend(i)
  \/ \E i \in 1..MaxFlows, o \in ConcurrentOutcomes : ConcurrentResponse(i, o)
  \/ \E i \in 1..MaxFlows, s \in SignOutcomes : ConcurrentSign(i, s)

SpecConcurrent == InitClient /\ [][ConcurrentNext]_vars


InitServer ==
  /\ ServerInit
  /\ ClientIdle
  /\ wallet = "multi"
  /\ OthersIdle

SpecSeller == InitServer /\ [][SellerNext]_vars

SpecHeader == InitServer /\ [][HeaderNext]_vars

InitBase64 ==
  /\ ServerIdle
  /\ ClientIdle
  /\ wallet = "multi"
  /\ SellerIdle
  /\ fac = <<>>
  /\ hdr = [raw |-> <<>>, payment |-> <<>>]
  /\ b64 \in {<<c>> : c \in Base64Calls}
  /\ pw = <<>>
  /\ ux = <<>>
  /\ gen = <<>>

SpecBase64 == InitBase64 /\ [][Base64Next]_vars

InitPaywall ==
  /\ ServerIdle
  /\ ClientIdle
  /\ wallet = "multi"
  /\ SellerIdle
  /\ fac = <<>>
  /\ hdr = [raw |-> <<>>, payment |-> <<>>]
  /\ b64 = <<>>
  /\ pw \in {<<[options |-> o, done |-> FALSE, html |-> <<>>]>> : o \in PaywallOptions}
  /\ ux = <<>>
  /\ gen = <<>>

SpecPaywall == InitPaywall /\ [][PaywallNext]_vars

SpecServer == InitServer /\ [][ServerNext]_vars

\* ------------------------------------------- usage counter updates, by command
\* A call of incrementUserUsage ("increment") or addUsageCreditsFromPayment
\* ("credit") under way: pc is the Redis command it awaits, used, remaining,
\* total and paid its local copies, ret where it goes on after
\* initializeNewUser.
UsageCall(op, ready, amountAtomic) ==
  [op |-> op, amount |-> amountAtomic,
   pc |-> IF ~ready THEN "done"
          ELSE IF op = "increment" THEN "getUsed"
          ELSE IF amountAtomic <= 0 \/ amountAtomic \div 1000 <= 0 THEN "done"
          ELSE "getRemaining",
   ret |-> "", used |-> 0, remaining |-> 0, total |-> 0, paid |-> 0]

\* the Redis command a call awaits is executed on keys r, and the call runs
\* on to its next command: [p, redis]
usageStep(p, r) ==
  CASE p.pc = "getUsed" ->
         IF r.used = <<>> THEN [p |-> [p EXCEPT !.pc = "exists1"], redis |-> r]
         ELSE [p |-> [p EXCEPT !.used = r.used[1], !.pc = "existsRemaining"], redis |-> r]
    [] p.pc = "exists1" ->
         IF ~userExistsInRedis(r, TRUE)
         THEN [p |-> [p EXCEPT !.pc = "initUsed", !.ret = "getUsedAgain"], redis |-> r]
         ELSE [p |-> [p EXCEPT !.used = 0, !.pc = "existsRemaining"], redis |-> r]
    [] p.pc = "initUsed" ->
         [p |-> [p EXCEPT !.pc = "initTotal"], redis |-> [r EXCEPT !.used = <<0>>]]
    [] p.pc = "initTotal" ->
         [p |-> [p EXCEPT !.pc = "initRemaining"],
          redis |-> [r EXCEPT !.total = <<FREE_USAGE_LIMIT>>]]
    [] p.pc = "initRemaining" ->
         [p |-> [p EXCEPT !.pc = "initPaid"],
          redis |-> [r EXCEPT !.remaining = <<FREE_USAGE_LIMIT>>]]
    [] p.pc = "initPaid" ->
         [p |-> [p EXCEPT !.pc = p.ret], redis |-> [r EXCEPT !.paid = <<0>>]]
    [] p.pc = "getUsedAgain" ->
         [p |-> [p EXCEPT !.used = ValueOr(r.used, 0), !.pc = "existsRemaining"],
          redis |-> r]
    [] p.pc = "existsRemaining" ->
         [p |-> [p EXCEPT !.pc = IF r.remaining # <<>> THEN "decrby" ELSE "exists2"],
          redis |-> r]
    [] p.pc = "exists2" ->
         IF ~userExistsInRedis(r, TRUE)
         THEN [p |-> [p EXCEPT !.pc = "initUsed", !.ret = "decrby"], redis |-> r]
         ELSE [p |-> [p EXCEPT !.pc = "setRemainingZero"], redis |-> r]
    [] p.pc = "setRemainingZero" ->
         [p |-> [p EXCEPT !.pc = "decrby"], redis |-> [r EXCEPT !.remaining = <<0>>]]
    [] p.pc = "decrby" ->
         [p |-> [p EXCEPT !.pc = IF ValueOr(r.remaining, 0) - 1 < 0
                                 THEN "clampRemaining" ELSE "setUsed"],
          redis |-> [r EXCEPT !.remaining = <<ValueOr(r.remaining, 0) - 1>>]]
    [] p.pc = "clampRemaining" ->
         [p |-> [p EXCEPT !.pc = "setUsed"], redis |-> [r EXCEPT !.remaining = <<0>>]]
    [] p.pc = "setUsed" ->
         [p |-> [p EXCEPT !.pc = "done"], redis |-> [r EXCEPT !.used = <<p.used + 1>>]]
    [] p.pc = "getRemaining" ->
         [p |-> [p EXCEPT !.remaining = ValueOr(r.remaining, 0), !.pc = "getTotal"],
          redis |-> r]
    [] p.pc = "getTotal" ->
         [p |-> [p EXCEPT !.total = ValueOr(r.total, FREE_USAGE_LIMIT), !.pc = "getPaid"],
          redis |-> r]
    [] p.pc = "getPaid" ->
         [p |-> [p EXCEPT !.paid = ValueOr(r.paid, 0), !.pc = "setRemaining"],
          redis |-> r]
    [] p.pc = "setRemaining" ->
         [p |-> [p EXCEPT !.pc = "setTotal"],
          redis |-> [r EXCEPT !.remaining = <<p.remaining + p.amount \div 1000>>]]
    [] p.pc = "setTotal" ->
         [p |-> [p EXCEPT !.pc = "setPaid"],
          redis |-> [r EXCEPT !.total = <<p.total + p.amount \div 1000>>]]
    [] p.pc = "setPaid" ->
         [p |-> [p EXCEPT !.pc = "done"],
          redis |-> [r EXCEPT !.paid = <<p.paid + p.amount \div 1000>>]]

\* a handler calls incrementUserUsage or addUsageCreditsFromPayment for the user
UsageCalled(op) ==
  /\ Len(usage.procs) < MaxOps
  /\ usage' = [usage EXCEPT !.procs = Append(@, UsageCall(op, redisReady, 10000))]
  /\ UNCHANGED <<pc, req, res, sent, calls, verifyResp, settleResp, entered,
                 remainingCount, paymentAmountAtomic, creditsAdded, proxied,
                 usageDeducted, redis, redisReady, nreq, prev>>
  /\ UNCHANGED <<cvars, xvars, yvars>>

\* Redis executes the command call i awaits
UsageCommand(i) ==
  /\ i \in 1..Len(usage.procs)
  /\ usage.procs[i].pc # "done"
  /\ usage' = [usage EXCEPT !.procs[i] = usageStep(usage.procs[i], redis).p]
  /\ redis' = usageStep(usage.procs[i], redis).redis
  /\ UNCHANGED <<pc, req, res, sent, calls, verifyResp, settleResp, entered,
                 remainingCount, paymentAmountAtomic, creditsAdded, proxied,
                 usageDeducted, redisReady, nreq, prev>>
  /\ UNCHANGED <<cvars, xvars, yvars>>

UsageNext ==
  \/ \E op \in {"increment", "credit"} : UsageCalled(op)
  \/ \E i \in 1..MaxOps : UsageCommand(i)

SpecUsage == InitServer /\ [][UsageNext]_vars

\* ------------------------------------------- usage reads, by Redis command
\* GET /usage ("usage"), getUserRemainingCount ("remaining") and
\* getUserUsageCount ("used") of one request after another, for the one user.
\* A call stands at the Redis command it awaits; what runs between two
\* commands, the tests of redis.status included, runs in one piece.
MaxReads == 2         \* calls of the usage reads, one after another

\* where a caller goes on after initializeNewUser returned
afterInit(fn) == IF fn = "remaining" THEN "remaining:reget" ELSE "done"

\* initializeNewUser is called: it returns at once when Redis is not ready
callInit(fn, ready) == IF ready THEN "init:setUsed" ELSE afterInit(fn)

\* the caller of userExistsInRedis goes on with its answer: `if (!exists)
\* await initializeNewUser(userId)`
afterExists(fn, exists, ready) ==
  IF exists THEN "done" ELSE callInit(fn, ready)

\* userExistsInRedis is called: false at once when Redis is not ready
callExists(fn, ready) ==
  IF ready THEN "exists:gets" ELSE afterExists(fn, FALSE, ready)

\* a handler calls fn: the first command it awaits
meterStart(fn, ready) ==
  IF ~ready THEN "done"
  ELSE IF fn = "usage" THEN "usage:gets"
  ELSE IF fn = "remaining" THEN "remaining:get"
  ELSE "used:get"

\* the command the call awaits completes (ok) or is rejected, on keys r with
\* Redis ready or not by then, and the call runs on to its next command:
\* [pc, redis]
meterStep(fn, at, r, ready, ok) ==
  CASE at = "usage:gets" ->
         [pc |-> IF ok THEN callExists(fn, ready) ELSE "done", redis |-> r]
    [] at = "remaining:get" ->
         [pc |-> IF ok /\ r.remaining = <<>> THEN callExists(fn, ready) ELSE "done",
          redis |-> r]
    [] at = "used:get" ->
         [pc |-> IF ok /\ r.used = <<>> THEN callExists(fn, ready) ELSE "done",
          redis |-> r]
    [] at = "exists:gets" ->
         [pc |-> afterExists(fn, ok /\ userExistsInRedis(r, TRUE), ready),
          redis |-> r]
    [] at = "init:setUsed" ->
         IF ok THEN [pc |-> "init:setTotal", redis |-> [r EXCEPT !.used = <<0>>]]
         ELSE [pc |-> afterInit(fn), redis |-> r]
    [] at = "init:setTotal" ->
         IF ok THEN [pc |-> "init:setRemaining",
                     redis |-> [r EXCEPT !.total = <<FREE_USAGE_LIMIT>>]]
         ELSE [pc |-> afterInit(fn), redis |-> r]
    [] at = "init:setRemaining" ->
         IF ok THEN [pc |-> "init:setPaid",
                     redis |-> [r EXCEPT !.remaining = <<FREE_USAGE_LIMIT>>]]
         ELSE [pc |-> afterInit(fn), redis |-> r]
    [] at = "init:setPaid" ->
         [pc |-> afterInit(fn), redis |-> IF ok THEN [r EXCEPT !.paid = <<0>>] ELSE r]
    [] OTHER -> [pc |-> "done", redis |-> r]

\* a handler calls one of the three for the user
MeterCalled(fn) ==
  /\ IF ux = <<>> THEN TRUE ELSE ux[1].pc = "done" /\ ux[1].n < MaxReads
  /\ ux' = <<[fn |-> fn, pc |-> meterStart(fn, redisReady),
              n |-> IF ux = <<>> THEN 1 ELSE ux[1].n + 1]>>
  /\ UNCHANGED <<pc, req, res, sent, calls, verifyResp, settleResp, entered,
                 remainingCount, paymentAmountAtomic, creditsAdded, proxied,
                 usageDeducted, redis, redisReady, nreq, prev>>
  /\ UNCHANGED <<usage, cvars, xvars, pw, gen>>

\* Redis answers the command the call awaits
MeterCommand(ok) ==
  /\ ux # <<>>
  /\ ux[1].pc # "done"
  /\ ux' = <<[ux[1] EXCEPT
                !.pc = meterStep(ux[1].fn, ux[1].pc, redis, redisReady, ok).pc]>>
  /\ redis' = meterStep(ux[1].fn, ux[1].pc, redis, redisReady, ok).redis
  /\ UNCHANGED <<pc, req, res, sent, calls, verifyResp, settleResp, entered,
                 remainingCount, paymentAmountAtomic, creditsAdded, proxied,
                 usageDeducted, redisReady, nreq, prev>>
  /\ UNCHANGED <<usage, cvars, xvars, pw, gen>>

MeterNext ==
  \/ \E fn \in {"usage", "remaining", "used"} : MeterCalled(fn)
  \/ \E ok \in BOOLEAN : MeterCommand(ok)
  \/ RedisStatusChange

SpecMeter == InitServer /\ [][MeterNext]_vars

\* ------------------------------------ POST /generate of requests under way
\* Requests of the one user that do not wait for each other, Redis ready all
\* along. Each stands at what handleGenerate awaits; a usage function runs
\* in one piece. served counts the inferences answered with success, credits
\* the credits payments added, free the free uses the user had left at the
\* start.
MaxGenerate == 2      \* POST /generate requests of the user under way at once

\* the amount of the payment header of a paying request (0.01 USDC)
PaidAmountAtomic == 10000

\* the keys of the user before the requests: new, or after u served
\* inferences of the free ones
GenerateKeys == {RedisNew} \cup {RedisOf(u, FREE_USAGE_LIMIT, FREE_USAGE_LIMIT - u, 0) :
                                   u \in 0..FREE_USAGE_LIMIT}

\* a POST /generate of the user arrives, with an X-PAYMENT header or not
GenerateArrives(pays) ==
  /\ gen # <<>>
  /\ Len(gen[1].reqs) < MaxGenerate
  /\ gen' = <<[gen[1] EXCEPT
                 !.reqs = Append(@, [pc |-> "remaining", pays |-> pays,
                                     remainingCount |-> 0])]>>
  /\ UNCHANGED <<svars, cvars, xvars, pw, ux>>

\* `const remainingCount = await getUserRemainingCount(userId)`
GenerateReadsRemaining(i) ==
  /\ gen # <<>>
  /\ i \in 1..Len(gen[1].reqs)
  /\ gen[1].reqs[i].pc = "remaining"
  /\ gen' = <<[gen[1] EXCEPT
                 !.keys = getUserRemainingCount(@, TRUE).redis,
                 !.reqs[i].remainingCount = getUserRemainingCount(gen[1].keys, TRUE).value,
                 !.reqs[i].pc = "usage"]>>
  /\ UNCHANGED <<svars, cvars, xvars, pw, ux>>

\* `const usageCount = await getUserUsageCount(userId)`; then the POST
\* branch: verifyPayment when requiresPayment, the proxy otherwise
GenerateReadsUsage(i) ==
  /\ gen # <<>>
  /\ i \in 1..Len(gen[1].reqs)
  /\ gen[1].reqs[i].pc = "usage"
  /\ gen' = <<[gen[1] EXCEPT
                 !.keys = getUserUsageCount(@, TRUE).redis,
                 !.reqs[i].pc = IF gen[1].reqs[i].remainingCount <= 0
                                THEN "verify" ELSE "proxy"]>>
  /\ UNCHANGED <<svars, cvars, xvars, pw, ux>>

\* verifyPayment returns: false (it answered 402) without a valid payment
GenerateVerifyReturns(i, isValid) ==
  /\ gen # <<>>
  /\ i \in 1..Len(gen[1].reqs)
  /\ gen[1].reqs[i].pc = "verify"
  /\ isValid => gen[1].reqs[i].pays
  /\ gen' = <<[gen[1] EXCEPT !.reqs[i].pc = IF isValid THEN "settle" ELSE "done"]>>
  /\ UNCHANGED <<svars, cvars, xvars, pw, ux>>

\* settle returns, and addUsageCreditsFromPayment runs, or settle throws
\* (402)
GenerateSettleReturns(i, returned) ==
  /\ gen # <<>>
  /\ i \in 1..Len(gen[1].reqs)
  /\ gen[1].reqs[i].pc = "settle"
  /\ gen' = <<[gen[1] EXCEPT
                 !.keys = IF returned
                          THEN addUsageCreditsFromPayment(@, TRUE, PaidAmountAtomic)
                          ELSE @,
                 !.credits = IF returned THEN @ + PaidAmountAtomic \div 1000 ELSE @,
                 !.reqs[i].pc = IF returned THEN "proxy" ELSE "done"]>>
  /\ UNCHANGED <<svars, cvars, xvars, pw, ux>>

\* proxyPost resolves with the inference answered, or rejects
GenerateProxyReturns(i, ok) ==
  /\ gen # <<>>
  /\ i \in 1..Len(gen[1].reqs)
  /\ gen[1].reqs[i].pc = "proxy"
  /\ gen' = <<[gen[1] EXCEPT
                 !.served = IF ok THEN @ + 1 ELSE @,
                 !.reqs[i].pc = IF ok THEN "increment" ELSE "done"]>>
  /\ UNCHANGED <<svars, cvars, xvars, pw, ux>>

\* `await incrementUserUsage(userId)`
GenerateIncrements(i) ==
  /\ gen # <<>>
  /\ i \in 1..Len(gen[1].reqs)
  /\ gen[1].reqs[i].pc = "increment"
  /\ gen' = <<[gen[1] EXCEPT
                 !.keys = incrementUserUsage(@, TRUE),
                 !.reqs[i].pc = "done"]>>
  /\ UNCHANGED <<svars, cvars, xvars, pw, ux>>

GenerateNext ==
  \/ \E pays \in BOOLEAN : GenerateArrives(pays)
  \/ \E i \in 1..MaxGenerate : GenerateReadsRemaining(i)
  \/ \E i \in 1..MaxGenerate : GenerateReadsUsage(i)
  \/ \E i \in 1..MaxGenerate, isValid \in BOOLEAN : GenerateVerifyReturns(i, isValid)
  \/ \E i \in 1..MaxGenerate, returned \in BOOLEAN : GenerateSettleReturns(i, returned)
  \/ \E i \in 1..MaxGenerate, ok \in BOOLEAN : GenerateProxyReturns(i, ok)
  \/ \E i \in 1..MaxGenerate : GenerateIncrements(i)

InitGenerate ==
  /\ ServerIdle
  /\ ClientIdle
  /\ wallet = "multi"
  /\ SellerIdle
  /\ fac = <<>>
  /\ hdr = [raw |-> <<>>, payment |-> <<>>]
  /\ b64 = <<>>
  /\ pw = <<>>
  /\ ux = <<>>
  /\ gen \in {<<[keys |-> k, free |-> ValueOr(k.remaining, FREE_USAGE_LIMIT),
                 reqs |-> <<>>, served |-> 0, credits |-> 0]>> : k \in GenerateKeys}

SpecGenerate == InitGenerate /\ [][GenerateNext]_vars


\* The server under the scheduling Node gives it: a handler that can run
\* does run, and the user service and the upstream answer; nothing is
\* assumed of the facilitator, of Redis or of further requests.
SpecServerFair ==
  /\ InitServer
  /\ [][ServerNext]_vars
  /\ WF_vars(HandlerStart)
  /\ WF_vars(GenerateStart)
  /\ WF_vars(\E found \in BOOLEAN : UserReturns(found))
  /\ WF_vars(\E o \in ProxyOutcomes : ProxyReturns(o))

\* ======================================== client, server and local facilitator
\* facilitator_local.go handleVerify on the body of a verify call
handleVerify(call) ==
  IF \/ call.paymentPayload.scheme # call.paymentRequirements.scheme
     \/ call.paymentPayload.network # call.paymentRequirements.network
  THEN [kind |-> "return", isValid |-> FALSE,
        invalidReason |-> Str("invalid_payment_requirements"),
        payer |-> Undefined, error |-> Undefined]
  ELSE [kind |-> "return", isValid |-> TRUE, invalidReason |-> Undefined,
        payer |-> IF call.paymentPayload.value # 0 THEN Str("0xPayer") ELSE Undefined,
        error |-> Undefined]

handleSettle_AlwaysSucceeds(call) ==
  [kind |-> "return", success |-> TRUE, errorReason |-> Undefined,
   transaction |-> "0xaaaaaaaaaaaaaaaaaaaaaaaaaaaaaaaaaaaaaaaa",
   error |-> Undefined]

\* facilitator_local.go handleSettle on the body of a settle call
handleSettle(call) ==
  IF \/ call.paymentPayload.scheme # call.paymentRequirements.scheme
     \/ call.paymentPayload.network # call.paymentRequirements.network
  THEN [kind |-> "return", success |-> FALSE,
        errorReason |-> Str("invalid_payment_requirements"),
        transaction |-> "0x0000000000000000000000000000000000000000",
        error |-> Undefined]
  ELSE [kind |-> "return", success |-> TRUE, errorReason |-> Undefined,
        transaction |-> "0xaaaaaaaaaaaaaaaaaaaaaaaaaaaaaaaaaaaaaaaa",
        error |-> Undefined]

\* the server's response as axios hands it to the interceptor: the JSON body
\* parsed back, the settlement header among the response headers
axiosResponse(w) ==
  [status |-> w.status,
   data |-> IF w.body.kind = "paymentRequired"
            THEN [form |-> "object", value |-> "object", x402Version |-> "number",
                  accepts |-> "array", elements |-> w.body.accepts]
            ELSE [NoData EXCEPT !.value = "object"],
   hasConfig |-> TRUE,
   xPaymentResponse |-> w.xPaymentResponse]

\* the caller issues its one request
CallerRequests ==
  /\ cpc = "idle"
  /\ SendRequest

\* the request last put on the wire reaches the server: the first one of a
\* logical request without payment header, the reissued one as the first
\* with the X-PAYMENT header of its config
RequestDelivered ==
  /\ cpc = "awaitResponse"
  /\ nreq < Len(wire)
  /\ IF nreq = 0
     THEN \E r \in Requests :
            /\ r.header = wire[1].xPayment
            /\ ReceiveRequest(r)
     ELSE ReceiveRequest([req EXCEPT !.header = wire[Len(wire)].xPayment])

\* the response the server wrote reaches the interceptor
ResponseDelivered ==
  /\ nreq = Len(wire)
  /\ Len(responses) < nreq
  /\ sent # <<>>
  /\ ResponseArrives(axiosResponse(sent[1]))

\* the local facilitator answers the verify call
FacilitatorVerifies ==
  /\ pc = "awaitVerify"
  /\ VerifyReturns(handleVerify(calls[Len(calls)]))

\* the local facilitator answers the settle call
FacilitatorSettles ==
  /\ pc = "awaitSettle"
  /\ SettleReturns(handleSettle(calls[Len(calls)]))

EndToEndNext ==
  \/ CallerRequests
  \/ RequestDelivered
  \/ HandlerStart
  \/ GenerateStart
  \/ \E found \in BOOLEAN : UserReturns(found)
  \/ FacilitatorVerifies
  \/ FacilitatorSettles
  \/ \E o \in ProxyOutcomes : ProxyReturns(o)
  \/ ResponseDelivered
  \/ \E s \in SignOutcomes : SignReturns(s)
  \/ RedisStatusChange

InitEndToEnd ==
  /\ ServerInit
  /\ ClientInit
  /\ OthersIdle

SpecEndToEnd == InitEndToEnd /\ [][EndToEndNext]_vars

\* ------------------------------------------ the local facilitator, over HTTP
\* a number as a JSON value
Num(n) == <<"number", n>>

\* what Go leaves in PaymentRequirements when the body has no such key
ZeroRequirements ==
  [scheme |-> "", network |-> "", maxAmountRequired |-> 0, resource |-> "",
   description |-> "", payTo |-> ""]

\* request bodies POSTed to /verify and /settle: text that is not JSON, the
\* seller demo's body, and objects with x402Version a number, a string or
\* missing, with and without paymentPayload and paymentRequirements
FacilitatorBodies ==
  {[json |-> FALSE, x402Version |-> JsonAbsent, paymentPayload |-> <<>>,
    paymentHeader |-> <<>>, paymentRequirements |-> <<>>],
   SellerFacilitatorBody(Str("paymentHeader"))}
  \cup {[json |-> TRUE, x402Version |-> v, paymentPayload |-> pp,
         paymentHeader |-> <<>>, paymentRequirements |-> pr] :
          v \in {Num(1), Num(2), Str("1"), JsonAbsent},
          pp \in {<<>>} \cup {<<p>> : p \in Payloads},
          pr \in {<<>>} \cup {<<createExactPaymentRequirements(1000, n, "/r", "")>> :
                                n \in {"base", "base-sepolia"}}}

decodeRequest_Lenient(body) ==
  [ok |-> TRUE,
   paymentPayload |-> IF body.paymentPayload = <<>> THEN NoPayload
                      ELSE body.paymentPayload[1],
   paymentRequirements |-> IF body.paymentRequirements = <<>> THEN ZeroRequirements
                           ELSE body.paymentRequirements[1]]

\* json.NewDecoder(r.Body).Decode(&req): an error for a body that is not JSON
\* or has a value of another type where the struct has an int; a missing key
\* leaves the zero value, an unknown key is ignored
decodeRequest(body) ==
  IF ~body.json \/ body.x402Version[1] \notin {"number", "absent"}
  THEN [ok |-> FALSE, paymentPayload |-> NoPayload,
        paymentRequirements |-> ZeroRequirements]
  ELSE [ok |-> TRUE,
        paymentPayload |-> IF body.paymentPayload = <<>> THEN NoPayload
                           ELSE body.paymentPayload[1],
        paymentRequirements |-> IF body.paymentRequirements = <<>> THEN ZeroRequirements
                                ELSE body.paymentRequirements[1]]

\* http.Error(w, "invalid json: ...", http.StatusBadRequest)
InvalidJson == [status |-> 400, text |-> TRUE, json |-> <<>>]

\* handleVerify as an HTTP handler: the status and the body written
serveVerify(body) ==
  IF ~decodeRequest(body).ok THEN InvalidJson
  ELSE [status |-> 200, text |-> FALSE,
        json |-> <<handleVerify(decodeRequest(body))>>]

\* handleSettle as an HTTP handler: the SettleResponse written has the
\* payload's network in both branches
serveSettle(body) ==
  IF ~decodeRequest(body).ok THEN InvalidJson
  ELSE LET d == decodeRequest(body)
           h == handleSettle(d)
       IN [status |-> 200, text |-> FALSE,
           json |-> <<[success |-> h.success, errorReason |-> h.errorReason,
                       transaction |-> h.transaction,
                       network |-> d.paymentPayload.network,
                       payer |-> IF h.success THEN handleVerify(d).payer
                                 ELSE Undefined]>>]

\* the facilitator serves a POST
FacilitatorServes(endpoint, body) ==
  /\ fac' = <<[endpoint |-> endpoint, body |-> body,
               response |-> IF endpoint = "/verify" THEN serveVerify(body)
                            ELSE serveSettle(body)]>>
  /\ UNCHANGED <<svars, cvars, seller, hdr, b64, yvars>>

FacilitatorNext ==
  \E endpoint \in {"/verify", "/settle"}, body \in FacilitatorBodies :
    FacilitatorServes(endpoint, body)

SpecFacilitator == InitServer /\ [][FacilitatorNext]_vars

\* ================================================================ properties
\* the 402 bodies the interceptor must refuse: not a JSON object, x402Version
\* not a number, or accepts not an array
Malformed402(o) ==
  /\ o.status = 402
  /\ o.hasConfig
  /\ \/ o.data.value # "object"
     \/ o.data.x402Version # "number"
     \/ o.data.accepts # "array"

\* C1: the interceptor reissues a request at most once. A logical request
\* puts at most two requests on the wire and signs at most one payment; the
\* signer only ever runs while the single unflagged request is the one in
\* flight; and when the reissued request (the one carrying the retry flag) is
\* answered 402 again, nothing is selected or signed a second time, no third
\* request is sent, and the caller gets that 402 error itself.
C1_RetryAtMostOnce ==
  /\ Len(wire) <= 2
  /\ Len(signCalls) <= 1
  /\ Len(selectCalls) <= 1
  /\ \A i \in 1..Len(wire) : wire[i].is402Retry <=> i = 2
  /\ cpc = "awaitSign" => Len(wire) = 1
  /\ (Len(responses) = 2 /\ responses[2].status = 402 /\ responses[2].hasConfig)
       => /\ cpc = "rejected"
          /\ outcome = RejectedWith(responses[2])
          /\ Len(wire) = 2

C1_Witness ==
  /\ Len(wire) = 2
  /\ wire[2].is402Retry
  /\ Len(responses) = 2
  /\ responses[2].status = 402
  /\ responses[2].hasConfig
  /\ responses[2].data.accepts = "array"
  /\ responses[2].data.elements # <<>>
  /\ cpc = "rejected"
  /\ Len(signCalls) = 1

\* C10: a 402 whose body is not a JSON object, whose x402Version is not a
\* number or whose accepts is not an array is rejected on the spot: it is the
\* last answer of its logical request, the promise is rejected, and neither
\* the selector nor the signer runs for it, nor is a request sent after it.
C10_MalformedBodyRejected ==
  \A i \in 1..Len(responses) :
    Malformed402(responses[i]) =>
      /\ Len(responses) = i
      /\ cpc = "rejected"
      /\ outcome.kind = "rejected"
      /\ Len(wire) = i
      /\ Len(selectCalls) = i - 1
      /\ Len(signCalls) = i - 1

C10_Witness ==
  /\ Len(responses) = 1
  /\ Malformed402(responses[1])
  /\ responses[1].data.value = "object"
  /\ responses[1].data.x402Version = "number"
  /\ responses[1].data.accepts = "object"
  /\ cpc = "rejected"
  /\ outcome = RejectedNew("Invalid 402 response: missing or invalid accepts array")

SynchronousEndpoints ==
  {"/dynamic-price", "/multiple-payment-requirements", "/generate"}

\* settle threw, or returned success:false
SettleFailed(o) == o.kind = "throw" \/ ~o.success

\* the resource of the current request went out: the weather report, or the
\* inference request was forwarded upstream
ResourceServed ==
  \/ proxied > 0
  \/ \E i \in 1..Len(sent) : sent[i].body.kind \in {"weather", "inference"}

\* the decoded payload of the current request matches none of the offered
\* requirements
NoRequirementMatches ==
  /\ HeaderTruthy(req.header)
  /\ ~decodePaymentThrows(req.header)
  /\ findMatchingPaymentRequirements(paymentRequirements,
                                     decodePayment(req.header)) = <<>>

\* C2: in /dynamic-price, /multiple-payment-requirements and POST /generate,
\* once settle has thrown or returned success:false the resource is never
\* served, no usage credits are added, and the request is answered 402.
C2_SettleFailureAnswered402 ==
  (/\ req.endpoint \in SynchronousEndpoints
   /\ settleResp # <<>>
   /\ SettleFailed(settleResp[1]))
    => /\ ~ResourceServed
       /\ creditsAdded = 0
       /\ pc = "done"
       /\ Len(sent) = 1
       /\ sent[1].status = 402

\* C3: when several requirements are offered and none has the scheme and
\* network of the decoded payload, no facilitator call is made with a
\* requirement that does not match the payload, the resource is not served,
\* and the request is answered 402.
C3_NoFallbackToFirst ==
  (/\ Len(paymentRequirements) > 1
   /\ entered
   /\ NoRequirementMatches)
    => /\ calls = <<>>
       /\ ~ResourceServed
       /\ pc = "done"
       /\ Len(sent) = 1
       /\ sent[1].status = 402

\* C4: when verify returns isValid:false, the request is answered with
\* exactly one response, a 402 whose error is the returned invalidReason,
\* whose payer is the returned payer (absent when none was returned) and
\* whose accepts is the offered list; settle is not called and the resource
\* is not served.
C4_InvalidPaymentBody ==
  (/\ verifyResp # <<>>
   /\ verifyResp[1].kind = "return"
   /\ ~verifyResp[1].isValid)
    => /\ pc = "done"
       /\ Len(sent) = 1
       /\ sent[1].status = 402
       /\ sent[1].body.kind = "paymentRequired"
       /\ sent[1].body.x402Version = x402Version
       /\ sent[1].body.error = verifyResp[1].invalidReason
       /\ sent[1].body.payer = (IF verifyResp[1].payer = Undefined THEN JsonAbsent
                                ELSE verifyResp[1].payer)
       /\ sent[1].body.accepts = paymentRequirements
       /\ \A i \in 1..Len(calls) : calls[i].op # "settle"
       /\ ~ResourceServed

C4_Witness ==
  /\ req.endpoint = "/multiple-payment-requirements"
  /\ verifyResp # <<>>
  /\ verifyResp[1].kind = "return"
  /\ ~verifyResp[1].isValid
  /\ verifyResp[1].invalidReason = Str("expired")
  /\ verifyResp[1].payer = Str("0xPayer")
  /\ Len(sent) = 1
  /\ sent[1].body.error = Str("expired")
  /\ sent[1].body.payer = Str("0xPayer")

\* C5: when verifyPayment is reached without a payment header, the request
\* is answered with exactly one response, a 402 whose body carries
\* x402Version, an error string and the endpoint's whole requirements list as
\* accepts; neither verify nor settle is called; and a repetition of the
\* same request is answered with the same accepts as the one before.
C5_MissingHeaderBody ==
  (entered /\ ~HeaderTruthy(req.header))
    => /\ pc = "done"
       /\ Len(sent) = 1
       /\ sent[1].status = 402
       /\ sent[1].body.kind = "paymentRequired"
       /\ sent[1].body.x402Version = x402Version
       /\ sent[1].body.error = Str("X-PAYMENT header is required")
       /\ sent[1].body.payer = JsonAbsent
       /\ sent[1].body.accepts = PaymentRequirementsOf(req.endpoint, req.multiplier)
       /\ calls = <<>>
       /\ (prev.endpoint = req.endpoint /\ prev.multiplier = req.multiplier)
            => sent[1].body.accepts = prev.accepts

C5_Witness ==
  /\ entered
  /\ req.endpoint = "/multiple-payment-requirements"
  /\ req.header.kind = "absent"
  /\ prev.endpoint = req.endpoint
  /\ prev.multiplier = req.multiplier
  /\ Len(sent) = 1
  /\ Len(sent[1].body.accepts) = 2
  /\ sent[1].body.accepts = prev.accepts

\* the JSON of an error field says something about the failure: it is a
\* string, or an object with content
Describes(e) == e # JsonAbsent /\ e # JsonObject("")

\* C6: when the payment header does not decode, the request is answered with
\* exactly one response, a 402 whose error describes the decode failure and
\* whose accepts is the list sent when no header is present; verify and
\* settle are not called.
C6_DecodeFailureDescribed ==
  (entered /\ HeaderTruthy(req.header) /\ decodePaymentThrows(req.header))
    => /\ pc = "done"
       /\ Len(sent) = 1
       /\ sent[1].status = 402
       /\ Describes(sent[1].body.error)
       /\ sent[1].body.accepts = MissingHeaderBody(paymentRequirements).accepts
       /\ calls = <<>>

\* a 402 whose body passes the checks on its shape
WellFormed402(o) ==
  /\ o.status = 402
  /\ o.hasConfig
  /\ ~Malformed402(o)
  /\ ~(o.data.form = "string" /\ o.data.value = "unparseable")

\* C11: when one element of the accepts array of a 402 fails the
\* PaymentRequirements schema, that 402 is the last answer of its logical
\* request and the request is rejected: the selector is not called on the
\* other elements, the signer is not called, and no request is sent after it.
C11_MalformedElementRejectsAll ==
  \A i \in 1..Len(responses) :
    (/\ WellFormed402(responses[i])
     /\ \E k \in 1..Len(responses[i].data.elements) :
          SchemaRejects(responses[i].data.elements[k]))
      => /\ Len(responses) = i
         /\ cpc = "rejected"
         /\ outcome.kind = "rejected"
         /\ Len(wire) = i
         /\ Len(selectCalls) = i - 1
         /\ Len(signCalls) = i - 1
         /\ signResp = <<>> \/ i = 2

C11_Witness ==
  /\ Len(responses) = 1
  /\ WellFormed402(responses[1])
  /\ Len(responses[1].data.elements) = 2
  /\ ~SchemaRejects(responses[1].data.elements[1])
  /\ SchemaRejects(responses[1].data.elements[2])
  /\ cpc = "rejected"
  /\ outcome = RejectedNew("Failed to parse payment requirements")
  /\ selectCalls = <<>>

\* C12: when createPaymentHeader fails, the logical request is rejected with
\* an error that names the signing step and carries the signer's message (the
\* thrown value as text when it has none); the request is not reissued, and
\* the request config has neither the retry flag nor an X-PAYMENT header.
C12_SignerFailureSurfaced ==
  (signResp # <<>> /\ ~signResp[1].ok)
    => /\ cpc = "rejected"
       /\ outcome.kind = "rejected"
       /\ outcome.error = "Failed to create payment header"
       /\ outcome.cause = (IF signResp[1].message # "" THEN signResp[1].message
                           ELSE "Error")
       /\ Len(wire) = 1
       /\ Len(responses) = 1
       /\ ~config.is402Retry
       /\ config.xPayment = NoXPayment

C12_Witness ==
  /\ signResp # <<>>
  /\ ~signResp[1].ok
  /\ signResp[1].message = "User rejected the request"
  /\ Len(signCalls) = 1
  /\ cpc = "rejected"
  /\ outcome.cause = "User rejected the request"

\* C13: an answer that is not a 402 ends the logical request as it is: a
\* success resolves with that response, an error without response or with
\* another status rejects with that very error; nothing is parsed, selected
\* or signed for it, the request config stays as it was and no request
\* follows.
C13_PassThrough ==
  \A i \in 1..Len(responses) :
    responses[i].status # 402
      => /\ Len(responses) = i
         /\ outcome = (IF responses[i].status = 200 THEN Resolved(responses[i])
                       ELSE RejectedWith(responses[i]))
         /\ cpc = outcome.kind
         /\ Len(wire) = i
         /\ Len(selectCalls) = i - 1
         /\ Len(signCalls) = i - 1
         /\ i = 1 => (config = FreshConfig /\ wire = <<FreshConfig>>)

C13_Witness ==
  /\ Len(responses) = 1
  /\ responses[1].status = 500
  /\ cpc = "rejected"
  /\ outcome = RejectedWith(responses[1])
  /\ config = FreshConfig

\* C14: the original request config object of a logical request never gets
\* the retry flag or the X-PAYMENT header: both go on a clone.
C14_OriginalConfigUntouched ==
  /\ ~config.is402Retry
  /\ config.xPayment = NoXPayment

\* C15: end to end on /dynamic-price with the local facilitator, once the
\* signer has succeeded and the logical request is over: the first request
\* went out without X-PAYMENT and was answered 402 with one requirement, the
\* second carried the encoded payment, the server called verify and then
\* settle once each for it, and the caller has a 200 with an
\* X-PAYMENT-RESPONSE header, after exactly two requests.
C15_EndToEndPaid ==
  (/\ req.endpoint = "/dynamic-price"
   /\ cpc \in {"resolved", "rejected"}
   /\ signResp # <<>>
   /\ signResp[1].ok)
    => /\ cpc = "resolved"
       /\ outcome.status = 200
       /\ outcome.xPaymentResponse = <<settleResponseHeader(settleResp[1])>>
       /\ settleResp[1].success
       /\ verifyResp[1].isValid
       /\ Len(wire) = 2
       /\ nreq = 2
       /\ wire[1].xPayment = NoXPayment
       /\ wire[2].xPayment.kind = "encoded"
       /\ Len(responses) = 2
       /\ responses[1].status = 402
       /\ Len(responses[1].data.elements) = 1
       /\ Len(calls) = 2
       /\ calls[1].op = "verify"
       /\ calls[2].op = "settle"

C15_Witness ==
  /\ req.endpoint = "/dynamic-price"
  /\ wallet = "evm:base-sepolia"
  /\ cpc = "resolved"
  /\ outcome.status = 200
  /\ outcome.xPaymentResponse # <<>>
  /\ Len(wire) = 2
  /\ Len(calls) = 2
  /\ settleResp # <<>>
  /\ settleResp[1].success

\* the responses verifyPayment can give the current request for a payment the
\* facilitator found invalid, and those it can give when verify threw
BusinessRejections ==
  {Written(402, InvalidPaymentBody(o, paymentRequirements), res) :
     o \in {x \in VerifyOutcomes : x.kind = "return" /\ ~x.isValid}}
TransportFailures ==
  {Written(402, VerifyFailedBody(o, paymentRequirements), res) :
     o \in {x \in VerifyOutcomes : x.kind = "throw"}}

AloneOf(f, w) ==
  LET f1 == IF f.wire = <<>> THEN NewFlow ELSE requestSent(NewFlow)
      f2 == IF Len(f.responses) >= 1
            THEN interceptResponse(f1, w, f.responses[1]) ELSE f1
      f3 == IF Len(f.signResp) >= 1
            THEN afterCreatePaymentHeader(f2, f.signResp[1]) ELSE f2
      f4 == IF Len(f.responses) >= 2
            THEN interceptResponse(f3, w, f.responses[2]) ELSE f3
  IN f4

\* C19: concurrent logical requests of one intercepted client are
\* independent. Whatever the interleaving, every request stands exactly where
\* its own answers and its own signer results put a request running alone
\* (so a retry flag set for another request neither suppresses nor repeats
\* its payment attempt), it signs at most once and sends at most two
\* requests, the second one only after its own signer succeeded.
C19_ConcurrentIndependent ==
  \A i \in 1..MaxFlows :
    /\ Len(flows[i].responses) <= 2
    /\ flows[i] = AloneOf(flows[i], wallet)
    /\ Len(flows[i].signCalls) <= 1
    /\ Len(flows[i].wire) <= 2
    /\ Len(flows[i].wire) = 2 =>
         /\ Len(flows[i].signResp) = 1 /\ flows[i].signResp[1].ok
         /\ ~flows[i].wire[1].is402Retry /\ flows[i].wire[2].is402Retry

\* one request has paid and been served while another, answered 402 after
\* that, is signing its own payment or has sent its own retry
C19_Witness ==
  \E i, j \in 1..MaxFlows :
    /\ i # j
    /\ flows[i].cpc = "resolved" /\ Len(flows[i].wire) = 2
    /\ flows[i].config.is402Retry
    /\ Len(flows[j].signCalls) = 1
    /\ flows[j].cpc \in {"awaitSign", "awaitResponse"}

\* C20: with an HTTP client and a signer that eventually return or throw,
\* every logical request whose answer or signature is awaited ends, and ends
\* in exactly one outcome: resolved or rejected, never both and never
\* replaced by another until the caller issues a new request; when the
\* handler retried and the caller's promise resolved, it resolved with the
\* answer of the retried request.
C20_HandlerSettles ==
  /\ (cpc \in {"awaitResponse", "awaitSign"}) ~> (cpc \in {"resolved", "rejected"})
  /\ [](cpc = "resolved" <=> outcome.kind = "resolved")
  /\ [](cpc = "rejected" <=> outcome.kind = "rejected")
  /\ []((cpc = "resolved" /\ Len(responses) = 2) => outcome = Resolved(responses[2]))
  /\ [][outcome.kind # "pending" => outcome'.kind = "pending"]_vars

\* the handler ran to the retry and the caller was rejected with the error of
\* the retried request, which was not a 402
C20_Witness ==
  /\ cpc = "rejected"
  /\ Len(wire) = 2
  /\ Len(responses) = 2
  /\ responses[1].status = 402
  /\ responses[2].status = 500
  /\ outcome = RejectedWith(responses[2])

\* C17: every request that reaches verifyPayment is eventually answered,
\* whether or not the facilitator ever answers verify or settle.
C17_EventuallyAnswered == entered ~> (sent # <<>>)

\* a usage counter update run alone, from start to end, on keys r
RunAlone(p, r) ==
  IF p.op = "increment" THEN incrementUserUsage(r, redisReady)
  ELSE addUsageCreditsFromPayment(r, redisReady, p.amount)

\* the keys after the updates S have run one after another, in every order
RECURSIVE SequentialResults(_, _)
SequentialResults(r, S) ==
  IF S = {} THEN {r}
  ELSE UNION {SequentialResults(RunAlone(usage.procs[i], r), S \ {i}) : i \in S}

\* C18: when all usage counter updates under way have finished, the four
\* keys of the user hold what some execution of those updates one after
\* another, from the keys they started from, leaves.
C18_NoLostUpdate ==
  (\A i \in 1..Len(usage.procs) : usage.procs[i].pc = "done")
    => redis \in SequentialResults(usage.start, 1..Len(usage.procs))

\* the positions of the calls of one facilitator operation
CallsOf(op) == {i \in 1..Len(calls) : calls[i].op = op}

\* C7: for every request, in every endpoint, verify is called at most once
\* and settle at most once, a settle call only follows the verify call, and
\* once settle has answered (failed, thrown or succeeded) no further
\* facilitator call is made.
C7_AtMostOneVerifyOneSettle ==
  /\ Cardinality(CallsOf("verify")) <= 1
  /\ Cardinality(CallsOf("settle")) <= 1
  /\ Len(calls) <= 2
  /\ \A i \in CallsOf("settle") : i = 2 /\ calls[1].op = "verify"
  /\ Len(verifyResp) <= 1
  /\ Len(settleResp) <= 1
  /\ settleResp # <<>> => (pc # "awaitSettle" /\ pc # "awaitVerify")

C7_Witness ==
  /\ req.endpoint = "/generate"
  /\ Len(calls) = 2
  /\ settleResp # <<>>
  /\ settleResp[1].kind = "throw"
  /\ pc = "done"

\* C8: in /dynamic-price, /multiple-payment-requirements and POST /generate,
\* every 200 written for a request whose payment was settled carries the
\* X-PAYMENT-RESPONSE header that encodes the response of that request's
\* settle call (the header being on the response when the body goes out).
C8_PaidOkCarriesSettleHeader ==
  (req.endpoint \in SynchronousEndpoints /\ settleResp # <<>>)
    => \A i \in 1..Len(sent) :
         sent[i].status = 200
           => sent[i].xPaymentResponse = <<settleResponseHeader(settleResp[1])>>

\* C9: in /delayed-settlement the settle call is made after the resource
\* response has gone out, and whatever settle answers, the client has
\* received exactly that one 200 response with the weather report and no
\* X-PAYMENT-RESPONSE header.
C9_DelayedSettlementSilent ==
  req.endpoint = "/delayed-settlement"
    => /\ \A i \in CallsOf("settle") :
            /\ calls[i].sentBefore = 1
            /\ sent # <<>>
            /\ sent[1].status = 200
            /\ sent[1].body = OtherBody("weather")
       /\ settleResp # <<>>
            => /\ pc = "done"
               /\ sent = <<Written(200, OtherBody("weather"),
                                   [status |-> 200, xPaymentResponse |-> <<>>])>>

C9_Witness ==
  /\ req.endpoint = "/delayed-settlement"
  /\ settleResp # <<>>
  /\ SettleFailed(settleResp[1])
  /\ settleResp[1].kind = "return"
  /\ pc = "done"
  /\ Len(sent) = 1
  /\ sent[1].status = 200

\* error.response.data of a seller response as the interceptor reads it
sellerResponseData(b) ==
  [form |-> "object", value |-> "object",
   x402Version |-> IF b.x402Version[1] \in {"number", "string"}
                   THEN b.x402Version[1] ELSE "missing",
   accepts |-> IF b.accepts[1] = "array" THEN "array" ELSE "missing",
   elements |-> <<>>]

\* C21: every 402 a resource server sends has a numeric x402Version, a string
\* error and an accepts array, and passes the interceptor's checks of the
\* body. Stated for the seller demo's GET /paid.
C21_PaymentRequiredBodyShape ==
  \A i \in 1..Len(seller.sent) :
    seller.sent[i].status = 402 =>
      /\ seller.sent[i].body.x402Version[1] = "number"
      /\ seller.sent[i].body.error[1] = "string"
      /\ seller.sent[i].body.accepts[1] = "array"
      /\ ResponseDataError(sellerResponseData(seller.sent[i].body)) = ""

\* C22: every request a resource server sends to the facilitator has a numeric
\* x402Version, a paymentPayload and one paymentRequirements object, and the
\* local facilitator decodes it. Stated for the calls of the seller demo.
C22_FacilitatorRequestShape ==
  \A i \in 1..Len(seller.calls) :
    /\ seller.calls[i].body.x402Version[1] = "number"
    /\ seller.calls[i].body.paymentPayload # <<>>
    /\ seller.calls[i].body.paymentRequirements # <<>>
    /\ decodeRequest(seller.calls[i].body).ok

\* the values of the lines of raw named exactly name
ValuesNamed(raw, name) == {raw[i].value : i \in {j \in 1..Len(raw) : raw[j].name = name}}

\* C23: the server finds the payment header under X-PAYMENT and under
\* x-payment: when one of the two names is on a single line, the payment is
\* that line's value; and when both names are present with different values
\* the payment is the value of the X-PAYMENT line.
C23_HeaderEitherCasePreferExact ==
  /\ \A name \in {"X-PAYMENT", "x-payment"} :
       (Len(hdr.raw) = 1 /\ hdr.raw[1].name = name /\ hdr.raw[1].value # "")
          => hdr.payment = <<hdr.raw[1].value>>
  /\ \A a, b \in HeaderValues :
       (/\ a # b
        /\ Len(hdr.raw) = 2
        /\ ValuesNamed(hdr.raw, "X-PAYMENT") = {a}
        /\ ValuesNamed(hdr.raw, "x-payment") = {b})
          => hdr.payment = <<a>>

\* a decoder's input with its whitespace taken out
Stripped(data) == SelectSeq(data, LAMBDA c : c # WS)

\* '=' somewhere before the last two positions, or more than two of them
IncorrectPadding(str) ==
  \/ \E i \in 1..Len(str) : str[i] = PAD /\ i < Len(str) - 1
  \/ Cardinality({i \in 1..Len(str) : str[i] = PAD}) > 2

\* a base64 string the decoders take: not empty, a multiple of four
\* characters, all of the alphabet but for at most two '=' at the end
ValidBase64(str) ==
  /\ Len(str) > 0
  /\ Len(str) % 4 = 0
  /\ \A i \in 1..Len(str) : str[i] \in 0..64
  /\ ~IncorrectPadding(str)
  /\ (str[Len(str) - 1] = PAD => str[Len(str)] = PAD)

\* a call of fn has been made
Called(fn) == b64 # <<>> /\ b64[1].done /\ b64[1].fn = fn

\* C24: safeBase64Decode throws "Invalid base64 string", and gives no text,
\* for every input that without its whitespace has a length that is not a
\* multiple of 4, a character outside the alphabet, or incorrect padding.
C24_InvalidEncodingRejected ==
  (/\ Called("decode")
   /\ \/ Len(Stripped(b64[1].input)) % 4 # 0
      \/ \E i \in 1..Len(b64[1].input) : b64[1].input[i] = BAD
      \/ IncorrectPadding(Stripped(b64[1].input)))
    => b64[1].result = Thrown("Invalid base64 string")

\* four characters of the alphabet and of padding, the padding misplaced
C24_Witness ==
  /\ Called("decode")
  /\ b64[1].result.throws
  /\ Len(Stripped(b64[1].input)) = 4
  /\ \A i \in 1..Len(b64[1].input) : b64[1].input[i] # BAD
  /\ IncorrectPadding(Stripped(b64[1].input))

\* C25: whitespace put anywhere into a valid base64 string changes nothing:
\* safeBase64Decode gives the text it gives for the string without it.
C25_WhitespaceIgnored ==
  (Called("decode") /\ ValidBase64(Stripped(b64[1].input)))
    => /\ ~b64[1].result.throws
       /\ b64[1].result = safeBase64Decode(Stripped(b64[1].input), b64[1].env)

\* a valid string with two whitespace characters inside it was decoded
C25_Witness ==
  /\ Called("decode")
  /\ ~b64[1].result.throws
  /\ Len(b64[1].input) = Len(Stripped(b64[1].input)) + 2
  /\ b64[1].input[1] # WS
  /\ b64[1].input[Len(b64[1].input)] # WS
  /\ b64[1].result.value # <<>>

\* C26: a payload serialised as JSON, encoded by safeBase64Encode and decoded
\* by safeBase64DecodeJson comes back equal to itself, whichever runtimes
\* encode and decode. The serialised payloads are the texts that are JSON.
C26_RoundTrip ==
  (/\ Called("decodeJson")
   /\ b64[1].origin # <<>>
   /\ ~JsonParse(b64[1].origin[1]).throws)
    => /\ ~b64[1].result.throws
       /\ b64[1].result.value = JsonParse(b64[1].origin[1]).value
       /\ JsonStringify(b64[1].result.value) = b64[1].origin[1]

\* the text 111 was encoded with btoa and decoded without atob
C26_Witness ==
  /\ Called("decodeJson")
  /\ b64[1].origin = <<(<<49, 49, 49>>)>>
  /\ ~b64[1].env
  /\ b64[1].input = encodeBase64(<<49, 49, 49>>)
  /\ b64[1].result = Returned(<<"number", 111>>)

\* C27: safeBase64DecodeJson throws "Invalid JSON payload" exactly when its
\* input is valid base64 of a text that is not JSON; an input that is not
\* valid base64 throws "Invalid base64 string".
C27_InvalidJsonAfterValidBase64 ==
  Called("decodeJson") =>
    /\ (b64[1].result = Thrown("Invalid JSON payload")) <=>
         (/\ ValidBase64(Stripped(b64[1].input))
          /\ JsonParse(safeBase64Decode(Stripped(b64[1].input), b64[1].env).value).throws)
    /\ ~ValidBase64(Stripped(b64[1].input)) =>
         b64[1].result = Thrown("Invalid base64 string")

\* valid base64 of the text {, which is not JSON, was refused as JSON
C27_Witness ==
  /\ Called("decodeJson")
  /\ b64[1].input = encodeBase64(<<123>>)
  /\ b64[1].result = Thrown("Invalid JSON payload")

\* the facilitator has served a POST to endpoint
Served(endpoint) == fac # <<>> /\ fac[1].endpoint = endpoint

\* the scheme and network a request body gives the payload and the
\* requirements ("" for what it leaves out)
BodyPayload(body) ==
  IF body.paymentPayload = <<>> THEN [scheme |-> "", network |-> ""]
  ELSE [scheme |-> body.paymentPayload[1].scheme,
        network |-> body.paymentPayload[1].network]
BodyRequirements(body) ==
  IF body.paymentRequirements = <<>> THEN [scheme |-> "", network |-> ""]
  ELSE [scheme |-> body.paymentRequirements[1].scheme,
        network |-> body.paymentRequirements[1].network]

\* a body Go cannot decode into the request struct: not JSON, or x402Version
\* not a number
Undecodable(body) == ~body.json \/ body.x402Version[1] \in {"string", "object"}

SaysYes(response, field) ==
  /\ response.status = 200
  /\ response.json # <<>>
  /\ response.json[1][field]

\* C29: the local facilitator's /settle answers a decodable request with
\* success false and a non-empty errorReason when the payload's scheme or
\* network differs from the requirement's, and otherwise with success true,
\* a non-empty transaction and the payload's network; and it succeeds on a
\* request if and only if /verify answers isValid true to the same body.
C29_SettleAnswers ==
  Served("/settle") =>
    /\ fac[1].response.status = 200 =>
         IF BodyPayload(fac[1].body) # BodyRequirements(fac[1].body)
         THEN /\ ~fac[1].response.json[1].success
              /\ fac[1].response.json[1].errorReason[1] = "string"
              /\ fac[1].response.json[1].errorReason[2] # ""
         ELSE /\ fac[1].response.json[1].success
              /\ fac[1].response.json[1].transaction # ""
              /\ fac[1].response.json[1].network = BodyPayload(fac[1].body).network
    /\ SaysYes(fac[1].response, "success")
         <=> SaysYes(serveVerify(fac[1].body), "isValid")

\* a matching payload with an authorization was settled: the answer has the
\* payload's network and the payer
C29_Witness ==
  /\ Served("/settle")
  /\ fac[1].body.paymentPayload # <<>>
  /\ fac[1].body.paymentRequirements # <<>>
  /\ fac[1].response.status = 200
  /\ fac[1].response.json[1].success
  /\ fac[1].response.json[1].network = "base-sepolia"
  /\ fac[1].response.json[1].payer = Str("0xPayer")

\* C30: the requirement the selector hands the interceptor is an element of
\* the list it was given, unchanged, for every wallet (no preferred network,
\* one network, a list of networks), and it is the requirement the signer is
\* then called with.
C30_SelectedIsOffered ==
  selected # <<>> =>
    /\ selectCalls # <<>>
    /\ selectCalls[Len(selectCalls)] # <<>>
    /\ \E i \in 1..Len(selectCalls[Len(selectCalls)]) :
         selectCalls[Len(selectCalls)][i] = selected[1]
    /\ selected[1] =
         selectPaymentRequirements(selectCalls[Len(selectCalls)],
                                   NetworkOf(wallet), "exact").value[1]
    /\ signCalls # <<>>
    /\ signCalls[Len(signCalls)] = selected[1]

\* of two requirements offered the second one was selected and signed
C30_Witness ==
  /\ selected # <<>>
  /\ Len(selectCalls) = 1
  /\ Len(selectCalls[1]) = 2
  /\ selectCalls[1][1] # selectCalls[1][2]
  /\ selected[1] = selectCalls[1][2]
  /\ signCalls = <<selectCalls[1][2]>>

\* ---------------------------------------------------------------- C31
\* what the HTML parser takes for the content of the page's first script
\* element: the text from "<script>" up to the first "</script" after it
scriptContent(html) ==
  LET open == indexOf(html, ScriptOpen)
      rest == SubSeq(html, open + Len(ScriptOpen), Len(html))
      close == indexOf(rest, SubSeq(ScriptClose, 1, Len(ScriptClose) - 1))
  IN IF open = 0 \/ close = 0 THEN <<>> ELSE SubSeq(rest, 1, close - 1)

\* where the double-quoted string literal whose body starts at src[i] ends:
\* the position of its closing quote, 0 when the line or the text ends first
RECURSIVE literalEnd(_, _)
literalEnd(src, i) ==
  IF i > Len(src) THEN 0
  ELSE IF src[i] = 34 THEN i
  ELSE IF src[i] \in {10, 13} THEN 0
  ELSE IF src[i] = 92 THEN literalEnd(src, i + 2)
  ELSE literalEnd(src, i + 1)

\* the bodies of the string literals of a comma-separated list; <<-1>> stands
\* at the place where the text stops being such a list
RECURSIVE literalsOf(_)
literalsOf(src) ==
  IF src = <<>> \/ Head(src) # 34 THEN <<<<-1>>>>
  ELSE LET e == literalEnd(src, 2)
       IN IF e = 0 THEN <<<<-1>>>>
          ELSE IF e = Len(src) THEN <<SubSeq(src, 2, e - 1)>>
          ELSE IF src[e + 1] # 44 THEN <<SubSeq(src, 2, e - 1), <<-1>>>>
          ELSE <<SubSeq(src, 2, e - 1)>> \o literalsOf(SubSeq(src, e + 2, Len(src)))

C32_SettleOnlyAfterValidVerify ==
  \A k \in 1..Len(calls) :
    calls[k].op = "settle" =>
      /\ HeaderTruthy(req.header)
      /\ ~decodePaymentThrows(req.header)
      /\ \E j \in 1..(k - 1) : calls[j].op = "verify"
      /\ verifyResp # <<>>
      /\ \A j \in 1..Len(verifyResp) :
           verifyResp[j].kind = "return" /\ verifyResp[j].isValid

\* POST /generate of a user out of credits, verified and now settling
C32_Witness ==
  /\ req.endpoint = "/generate"
  /\ pc = "awaitSettle"
  /\ \E k \in 1..Len(calls) : calls[k].op = "settle"
  /\ verifyResp # <<>>
  /\ verifyResp[1].isValid

\* ---------------------------------------------------------------- C33
\* C33: in POST /generate incrementUserUsage runs at most once for a request,
\* and only after the inference succeeded and its response was sent: the one
\* response of the request is the upstream answer with status 200.  After an
\* upstream error status or a proxy request or response error the usage keys
\* stay as they were.
C33_UsageOnlyAfterSuccess ==
  /\ usageDeducted <= 1
  /\ usageDeducted = 1 =>
       /\ req.endpoint = "/generate"
       /\ req.method = "POST"
       /\ sent # <<>>
       /\ sent[1].body.kind = "inference"
       /\ sent[1].status = 200

\* ---------------------------------------------------------------- C35
\* C35: in POST /generate addUsageCreditsFromPayment runs for a request only
\* when the settle call of that request returned success true; when settle
\* threw or returned success false no credits are added and no inference
\* request goes upstream.
C35_CreditsOnlyAfterSettled ==
  /\ creditsAdded > 0 =>
       /\ settleResp # <<>>
       /\ settleResp[1].kind = "return"
       /\ settleResp[1].success
  /\ (settleResp # <<>> /\ ~(settleResp[1].kind = "return" /\ settleResp[1].success)) =>
       /\ creditsAdded = 0
       /\ (req.endpoint = "/generate" => proxied = 0)

\* ---------------------------------------------------------------- C38
\* C38: whenever the server calls settle for a request, the payment payload
\* and the payment requirement it passes are the ones it passed to the verify
\* call of that request.
C38_SettleWhatWasVerified ==
  \A k \in 1..Len(calls) :
    calls[k].op = "settle" =>
      \E j \in 1..(k - 1) :
        /\ calls[j].op = "verify"
        /\ calls[j].paymentPayload = calls[k].paymentPayload
        /\ calls[j].paymentRequirements = calls[k].paymentRequirements

\* ---------------------------------------------------------------- C39
\* C39: at most one response is written for an inbound request.  After the
\* 402 of verifyPayment, and after a status and body sent by a handler or by
\* proxyPost, neither the handling of a settle outcome nor a proxy end or
\* error event nor the handling of a failed inference writes another one.
C39_AtMostOneResponse ==
  /\ [](Len(sent) <= 1)
  /\ [][sent # <<>> => sent' = sent \/ (pc \in {"idle", "done"} /\ sent' = <<>>)]_vars

\* the upstream request of a POST /generate failed: proxyPost answered 502,
\* rejected, and handleGenerate's catch left it at that
C39_Witness ==
  /\ req.endpoint = "/generate"
  /\ proxied = 1
  /\ pc = "done"
  /\ Len(sent) = 1
  /\ sent[1].status = 502

\* ---------------------------------------------------------------- C40
\* C40: safeBase64Decode throws "Invalid base64 string" for the empty string
\* and for every string of whitespace only; hence
\* safeBase64Decode(safeBase64Encode(s)) is s for every string s that is not
\* empty, and throws for the empty one.
C40_EmptyRejectedOthersRoundTrip ==
  /\ (Called("decode") /\ Stripped(b64[1].input) = <<>>) =>
       b64[1].result = Thrown("Invalid base64 string")
  /\ Called("roundTrip") =>
       IF b64[1].input = <<>>
       THEN b64[1].result = Thrown("Invalid base64 string")
       ELSE b64[1].result = Returned(b64[1].input)

\* C34: a user with at least one usage key is never initialized again: the
\* first write of initializeNewUser happens only when the user has no key,
\* and no step takes remainingCount from 0 to FREE_USAGE_LIMIT, also when a
\* Redis command fails or the readiness changes between the commands.
C34_NeverInitializedAgain ==
  [][/\ (ux # <<>> /\ ux' # <<>> /\ ux[1].pc = "init:setUsed"
           /\ ux'[1].pc = "init:setTotal")
          => ~userExistsInRedis(redis, TRUE)
     /\ ~(redis.remaining = <<0>> /\ redis'.remaining = <<FREE_USAGE_LIMIT>>)]_vars

\* C36: with Redis ready and the usage functions run one at a time, the keys
\* of an initialized user satisfy remaining = total - used, remaining >= 0,
\* after every one of them.
C36_RemainingIsTotalMinusUsed ==
  gen # <<>> /\ gen[1].keys.used # <<>> /\ gen[1].keys.total # <<>>
             /\ gen[1].keys.remaining # <<>>
    => /\ gen[1].keys.remaining[1] = gen[1].keys.total[1] - gen[1].keys.used[1]
       /\ gen[1].keys.remaining[1] >= 0

\* C37: with Redis ready, the inferences served to a user never exceed the
\* free uses the user had plus the credits payments added, also when the
\* user's POST /generate requests do not wait for each other.
C37_ServedWithinFreePlusCredits ==
  gen # <<>> => gen[1].served <= gen[1].free + gen[1].credits

====
